---- MODULE Spec2Model ----
(***************************************************************************)
(* A model of the database access helpers of alx-backend-python:           *)
(*                                                                         *)
(*   python-decorators-0x01/2-transactional.py     with_db_connection,     *)
(*                                                  transactional          *)
(*   python-context-async-perations-0x02/0-databaseconnection.py           *)
(*                                                  DatabaseConnection     *)
(*   python-context-async-perations-0x02/1-execute.py   ExecuteQuery       *)
(*   python-decorators-0x01/3-retry_on_failure.py  retry_on_failure        *)
(*                                                                         *)
(*   python-decorators-0x01/4-cache_query.py       cache_query             *)
(*   python-generators-0x00/0-stream_users.py      stream_users            *)
(*   python-generators-0x00/1-batch_processing.py  stream_users_in_batches *)
(*   python-generators-0x00/2-lazy_paginate.py     paginate_users,         *)
(*                                                  lazy_pagination        *)
(*   python-generators-0x00/4-stream_ages.py       stream_user_ages,       *)
(*                                 calculate_average_age_from_stream       *)
(*   python-context-async-perations-0x02/3-concurrent.py                   *)
(*                                                  fetch_concurrently     *)
(*   python-generators-0x00/1-batch_processing.py  batch_processing        *)
(*   0x03-Unittests_and_integration_tests/test_client.py                   *)
(*                                 access_nested_map, memoize,             *)
(*                                 GithubOrgClient                         *)
(*   messaging_app/chats/views.py                  ConversationViewSet,    *)
(*                                                  MessageViewSet         *)
(*                                                                         *)
(* Spec runs one resource scope after another over one sqlite database;    *)
(* SpecRetry runs the retry wrapper and SpecFetch its composition with     *)
(* with_db_connection (fetch_users_with_retry); SpecCache and              *)
(* SpecCacheRace run the query cache with one caller and with two;         *)
(* SpecStream runs the stream generators over one table; SpecAges runs    *)
(* the average over the age stream; SpecConc runs the two fetches of      *)
(* fetch_concurrently as interleaved tasks; SpecInst enters and exits one *)
(* resource scope again and again; SpecNest calls access_nested_map and   *)
(* has_license on nested maps; SpecGh reads the memoized properties and   *)
(* public_repos of two GithubOrgClient instances; SpecBp runs             *)
(* batch_processing over a table of ages; SpecChat sends requests to the  *)
(* conversation and message endpoints.                                    *)
(* The sqlite3 library is modelled by                                      *)
(* what the calls of the code do to it: a connection holds an uncommitted  *)
(* view of the tables, commit() publishes it, rollback() and close()       *)
(* discard it, and connect(), execute(), commit() and rollback() may       *)
(* raise.  Errors are Exception instances (sqlite3.Error or another        *)
(* Exception): both except clauses of every handler modelled here do the   *)
(* same but for the text they log, so one error name per raising call is   *)
(* kept.                                                                   *)
(***************************************************************************)
EXTENDS Integers, Sequences, FiniteSets, TLC

\* ------------------------------------------------------------------ bounds
NumIds == 2
NumVals == 2
MaxRetries == 3
MaxDelay == 3
MaxFetchCalls == 4
NumMeanings == 1
NumSpellings == 2
MaxVer == 1
MaxCacheCalls == 3
MaxRows == 4
MaxSize == 3
MaxAgeRows == 4
MaxEnters == 3
NumLeaves == 2
MaxPathLen == 3
MaxRepos == 3
NumPayloads == 2
MaxAccesses == 3
MaxUsers == 3
NumUsers == 3
MaxIds == 2
MaxConvs == 1
MaxMsgs == 1

\* 1-batch_processing.py line 81: if age > 25
MinAge == 25

\* ------------------------------------------------------- program constants
\* 3-retry_on_failure.py: @retry_on_failure(retries=3, delay=1) on
\* fetch_users_with_retry, and _max_failures = 2
FetchRetries == 3
MaxFailures == 2

Ids == 1..NumIds
Vals == 1..NumVals
Scopes == {"decorated", "DatabaseConnection", "ExecuteQuery"}

VARIABLES
    \* ---- the store and the scope that runs (Spec)
    db,        \* committed rows of users.db: [Ids -> Vals]
    conn,      \* the scope's connection: "none" (None), "open", "closed"
    txn,       \* the open connection's view: committed rows + its own writes
    calls,     \* the calls made on sqlite3 and the connection, in order
    pc,        \* where the running operation stands
    scope,     \* which scope runs: an element of Scopes, or "none"
    arg,       \* the operation's input: [id, val, query, mode]
    workRes,   \* how the wrapped work ended: "notrun", "returned", "raised"
    wrote,     \* TRUE once the work has executed its UPDATE/INSERT
    exc,       \* the exception in flight ("none" when there is none)
    outcome,   \* what the caller got: "none", "returned" or the error raised
    before,    \* the caller's read before the operation
    after,     \* the caller's read, on a new connection, after the operation
    \* ---- the retry wrapper (SpecRetry)
    retries,   \* retry_on_failure's retries argument
    delay,     \* retry_on_failure's delay argument
    i,         \* the loop variable of wrapper
    rpc,       \* where the wrapper stands
    events,    \* [e |-> "call", n |-> attempt] and [e |-> "sleep", n |-> seconds],
               \* in the order they happened
    attemptErr,\* the error caught from the current attempt (its number), 0: none
    result,    \* what wrapper returned: [kind, attempt], kind "unset",
               \* "value" (the value attempt returned) or "None"
    raised,    \* the error wrapper raised (the attempt's number), 0: none
    \* ---- fetch_users_with_retry (SpecFetch)
    fpc,          \* where the call stands
    fconns,       \* connections opened so far; connection k is the k-th opened
    fcur,         \* the connection with_db_connection holds (0: None)
    fopen,        \* the connections that are open
    fattempts,    \* per attempt: [conn |-> the connection it ran with,
                  \*               open |-> the connections open when it started]
    fi,           \* the loop variable of the retry wrapper
    failureCount, \* the global _failure_count
    fout,         \* what the caller got: "none", "returned", "raised"
    \* ---- the query cache (SpecCache, SpecCacheRace)
    tver,         \* how often the users table was modified so far
    queryCache,   \* the global query_cache: a function from keys to results
    cpc,          \* per caller, where its call of wrapper stands
    cq,           \* per caller, the query string it passed
    cres,         \* per caller, the local `result`
    cret,         \* per caller, what its call gave: [kind, val, settled]
    ncalls,       \* calls started so far
    execLog,      \* per query string, the results func returned, in order
    raisedCnt,    \* per query string, how often func raised
    stored,       \* per query string, the results written to the cache
    \* ---- the stream generators (SpecStream)
    tlen,         \* rows in user_data; row j of the scan order is j
    gkind,        \* the generator: "rows", "batches" or "pages"
    gsize,        \* its batch_size / page_size argument
    gpc,          \* "idle", "created", "suspended", "ended", "raised", "closed"
    connection,   \* TRUE while the generator holds an open connection
    cursorPos,    \* rows the open cursor has handed out
    offset,       \* lazy_pagination's offset
    yielded,      \* the units yielded so far, each a sequence of rows
    fetchLog,     \* the fetches issued: [at, n, cur, ok]
    pulls,        \* next() calls the consumer made on this generator
    opened,       \* connections opened by this scan
    closed,       \* connections closed by this scan
    queries,      \* queries issued to the store by this scan
    storeFailed,  \* a connect, execute or fetch of this scan failed
    gerr,         \* the error the consumer got: "none", "ValueError"
    scanned,      \* per generator, the rows of its last whole scan
    \* ---- the average age over the age stream (SpecAges)
    atable,       \* the age column of user_data, in scan order
    apc,          \* "idle", "running", "exhausted", "reported"
    agen,         \* the generator: "none", "created", "suspended", "ended"
    agens,        \* stream_user_ages generators made by this call
    apos,         \* rows the generator's cursor has handed out
    total_age,    \* the running sum
    user_count,   \* the running count
    report,       \* what was printed: [kind, cents]
    aopened,      \* connections (with their cursor) opened by this call
    aclosed,      \* connections (with their cursor) closed by this call
    afailed,      \* a connect, execute or fetch of this call failed
    \* ---- the two concurrent fetches (SpecConc)
    tpc,          \* per task: "new", "connected", "cursor", "closing",
                  \*           "finished", "cancelled"
    tconn,        \* per task, the connection `db` it holds (0: none)
    tres,         \* per task, its outcome: [kind, val, err]
    copen,        \* the connections that are open
    cowner,       \* per connection made, the task that opened it
    cuses,        \* <<connection, task>> for every execute, fetch, close
    order,        \* the tasks in the order they finished
    outer,        \* the future of asyncio.gather: [kind, val, err]
    cout,         \* what fetch_concurrently gave its caller
    \* ---- one resource scope entered and exited repeatedly (SpecInst)
    ikind,        \* which scope: one of Scopes
    selfConn,     \* self.conn of the instance (0: None)
    frames,       \* the bodies now running, innermost last: the connection
                  \* each was given
    iopen,        \* the connections of this scope that are open
    imade,        \* connections this scope has opened so far
    ilast,        \* how the last enter or exit went
    \* ---- access_nested_map and has_license (SpecNest)
    nmap,         \* the nested map (or repo) last passed
    npath,        \* the path last passed to access_nested_map
    nkey,         \* the license key last passed to has_license
    nres,         \* what access_nested_map gave: [kind, val, key]
    hres,         \* what has_license gave: [kind, b]
    \* test_client.py, memoize and GithubOrgClient
    gattrs,       \* per client: the attributes _org and _repos_payload
    gjLog,        \* per client: the get_json calls made for it, in order
    gret,         \* the access that has just finished, or NoRet
    gcalls,       \* accesses made so far
    \* 1-batch_processing.py, batch_processing
    utable,       \* user_data for batch_processing: the age of each row
    bsize,        \* batch_size of the call
    bpc,          \* idle, created, batch, ended, raised
    bcur,         \* rows the cursor has handed out
    bbatches,     \* the batches stream_users_in_batches has yielded
    bidx,         \* users of the last batch already looked at
    bout,         \* the users batch_processing has yielded, in order
    bskipped,     \* the users it has printed the warning for
    bfailed,      \* the store failed during the scan
    \* messaging_app/chats: the stored conversations and messages
    conversations, \* Conversation rows in creation order: their participants
    messages,      \* Message rows in creation order: sender and conversation
    response       \* the request just answered and its status, or NoResponse

scopeVars == <<db, conn, txn, calls, pc, scope, arg, workRes, wrote, exc,
               outcome, before, after>>
retryVars == <<retries, delay, i, rpc, events, attemptErr, result, raised>>
fetchVars == <<fpc, fconns, fcur, fopen, fattempts, fi, failureCount, fout>>
cacheVars == <<tver, queryCache, cpc, cq, cres, cret, ncalls, execLog,
               raisedCnt, stored>>
streamVars == <<tlen, gkind, gsize, gpc, connection, cursorPos, offset,
                yielded, fetchLog, pulls, opened, closed, queries,
                storeFailed, gerr, scanned>>
agesVars == <<atable, apc, agen, agens, apos, total_age, user_count, report,
              aopened, aclosed, afailed>>
concVars == <<tpc, tconn, tres, copen, cowner, cuses, order, outer, cout>>
instVars == <<ikind, selfConn, frames, iopen, imade, ilast>>
nestVars ==
    <<nmap, npath, nkey, nres, hres>>
ghVars ==
    <<gattrs, gjLog, gret, gcalls>>
bpVars ==
    <<utable, bsize, bpc, bcur, bbatches, bidx, bout, bskipped, bfailed>>
chatVars ==
    <<conversations, messages, response>>
vars ==
    <<scopeVars, retryVars, fetchVars, cacheVars, streamVars, agesVars,
      concVars, instVars, nestVars, ghVars, bpVars, chatVars>>

\* what the actions of one component leave alone
notScope ==
    <<retryVars, fetchVars, cacheVars, streamVars, agesVars, concVars,
      instVars, nestVars, ghVars, bpVars, chatVars>>
notRetry ==
    <<scopeVars, fetchVars, cacheVars, streamVars, agesVars, concVars,
      instVars, nestVars, ghVars, bpVars, chatVars>>
notFetch ==
    <<scopeVars, retryVars, cacheVars, streamVars, agesVars, concVars,
      instVars, nestVars, ghVars, bpVars, chatVars>>
notCache ==
    <<scopeVars, retryVars, fetchVars, streamVars, agesVars, concVars,
      instVars, nestVars, ghVars, bpVars, chatVars>>
notStream ==
    <<scopeVars, retryVars, fetchVars, cacheVars, agesVars, concVars,
      instVars, nestVars, ghVars, bpVars, chatVars>>
notAges ==
    <<scopeVars, retryVars, fetchVars, cacheVars, streamVars, concVars,
      instVars, nestVars, ghVars, bpVars, chatVars>>
notConc ==
    <<scopeVars, retryVars, fetchVars, cacheVars, streamVars, agesVars,
      instVars, nestVars, ghVars, bpVars, chatVars>>
notInst ==
    <<scopeVars, retryVars, fetchVars, cacheVars, streamVars, agesVars,
      concVars, nestVars, ghVars, bpVars, chatVars>>
notNest ==
    <<scopeVars, retryVars, fetchVars, cacheVars, streamVars, agesVars,
      concVars, instVars, ghVars, bpVars, chatVars>>
notGh ==
    <<scopeVars, retryVars, fetchVars, cacheVars, streamVars, agesVars,
      concVars, instVars, nestVars, bpVars, chatVars>>
notBp ==
    <<scopeVars, retryVars, fetchVars, cacheVars, streamVars, agesVars,
      concVars, instVars, nestVars, ghVars, chatVars>>
notChat ==
    <<scopeVars, retryVars, fetchVars, cacheVars, streamVars, agesVars,
      concVars, instVars, nestVars, ghVars, bpVars>>

NoArg == [id |-> 1, val |-> 1, query |-> TRUE, mode |-> "ok"]

ScopeInit ==
    /\ db = [k \in Ids |-> 1]
    /\ conn = "none"
    /\ txn = [k \in Ids |-> 1]
    /\ calls = <<>>
    /\ pc = "idle"
    /\ scope = "none"
    /\ arg = NoArg
    /\ workRes = "notrun"
    /\ wrote = FALSE
    /\ exc = "none"
    /\ outcome = "none"
    /\ before = [k \in Ids |-> 1]
    /\ after = [k \in Ids |-> 1]

RetryInit ==
    /\ retries = 0
    /\ delay = 1
    /\ i = 0
    /\ rpc = "idle"
    /\ events = <<>>
    /\ attemptErr = 0
    /\ result = [kind |-> "unset", attempt |-> 0]
    /\ raised = 0

FetchInit ==
    /\ fpc = "idle"
    /\ fconns = 0
    /\ fcur = 0
    /\ fopen = {}
    /\ fattempts = <<>>
    /\ fi = 0
    /\ failureCount = 0
    /\ fout = "none"

\* A query string: <<what it selects, how it is spelled>>.  Two strings
\* with the same first part are the same query written differently.
Queries == (1..NumMeanings) \X (1..NumSpellings)
Callers == {1, 2}
NoRows == <<0, 0>>
NoReturn == [kind |-> "none", val |-> NoRows, settled |-> FALSE]

CacheInit ==
    /\ tver = 0
    /\ queryCache = <<>>
    /\ cpc = [c \in Callers |-> "idle"]
    /\ cq = [c \in Callers |-> <<1, 1>>]
    /\ cres = [c \in Callers |-> NoRows]
    /\ cret = [c \in Callers |-> NoReturn]
    /\ ncalls = 0
    /\ execLog = [q \in Queries |-> <<>>]
    /\ raisedCnt = [q \in Queries |-> 0]
    /\ stored = [q \in Queries |-> <<>>]

Kinds == {"rows", "batches", "pages", "ages"}
Sizes == (0 - 1)..MaxSize
Failures == {"none", "connect", "execute", "fetch"}

StreamInit ==
    /\ tlen = 0
    /\ gkind = "rows"
    /\ gsize = 1
    /\ gpc = "idle"
    /\ connection = FALSE
    /\ cursorPos = 0
    /\ offset = 0
    /\ yielded = <<>>
    /\ fetchLog = <<>>
    /\ pulls = 0
    /\ opened = 0
    /\ closed = 0
    /\ queries = 0
    /\ storeFailed = FALSE
    /\ gerr = "none"
    /\ scanned = [k \in Kinds |-> <<>>]

\* The ages a row may hold (whole numbers: the column is DECIMAL(5,0)).
AgeVals == {22, 28, 30, 45}
NoReport == [kind |-> "none", cents |-> 0]

AgesInit ==
    /\ atable = <<>>
    /\ apc = "idle"
    /\ agen = "none"
    /\ agens = 0
    /\ apos = 0
    /\ total_age = 0
    /\ user_count = 0
    /\ report = NoReport
    /\ aopened = 0
    /\ aclosed = 0
    /\ afailed = FALSE

\* The awaitables handed to asyncio.gather, in the order they are passed:
\* 1 is async_fetch_users(), 2 is async_fetch_older_users().
Tasks == {1, 2}
NoOutcome == [kind |-> "none", val |-> <<>>, err |-> "none"]
Waiting == [kind |-> "waiting", val |-> <<>>, err |-> "none"]

ConcInit ==
    /\ tpc = [t \in Tasks |-> "new"]
    /\ tconn = [t \in Tasks |-> 0]
    /\ tres = [t \in Tasks |-> NoOutcome]
    /\ copen = {}
    /\ cowner = <<>>
    /\ cuses = {}
    /\ order = <<>>
    /\ outer = Waiting
    /\ cout = NoOutcome

InstInit ==
    /\ ikind = "decorated"
    /\ selfConn = 0
    /\ frames = <<>>
    /\ iopen = {}
    /\ imade = 0
    /\ ilast = "new"

\* JSON values: a leaf (a number or string, here a number) or a mapping from
\* some keys to values, nested at most two deep.
Keys == {"license", "key"}
Leaves == [t : {"leaf"}, v : 1..NumLeaves]
MapsOver(values) ==
    UNION {[t : {"map"}, m : [S -> values]] : S \in SUBSET Keys}
Values1 == Leaves \cup MapsOver(Leaves)
Values2 == Leaves \cup MapsOver(Values1)
RECURSIVE PathsUpTo(_)
PathsUpTo(n) ==
    IF n = 0 THEN {<<>>}
    ELSE LET shorter == PathsUpTo(n - 1)
         IN  shorter \cup {Append(p, k) : p \in shorter, k \in Keys}
NoValue == [t |-> "none", v |-> 0]
NoAccess == [kind |-> "none", val |-> NoValue, key |-> "none"]
NoBool == [kind |-> "none", b |-> FALSE]

NestInit ==
    /\ nmap = [t |-> "map", m |-> <<>>]
    /\ npath = <<>>
    /\ nkey = [t |-> "leaf", v |-> 1]
    /\ nres = NoAccess
    /\ hres = NoBool

\* ------------- test_client.py: the clients and what the server answers
Instances == {1, 2}
NoUrl == [kind |-> "none", id |-> 0]
\* ORG_URL.format(org=self._org_name); client cl is made for organisation cl
OrgUrl(cl) == [kind |-> "org", id |-> cl]
\* the values of "repos_url" an organisation payload may carry
ReposUrls == [kind : {"repos"}, id : Instances]
MapOf(f) == [t |-> "map", m |-> f]
\* a repository payload entry: no license, license null, license with a key
BodyAt(n) ==
    LET r == n % (NumLeaves + 2)
    IN  IF r = 0 THEN MapOf(<<>>)
        ELSE IF r = 1
        THEN MapOf([k \in {"license"} |-> [t |-> "leaf", v |-> 1]])
        ELSE MapOf([k \in {"license"} |->
                      MapOf([kk \in {"key"} |-> [t |-> "leaf", v |-> r - 1]])])
\* the repository lists the server may answer with; names are positions
\* in the organisation's catalogue
PayloadAt(v) ==
    [j \in 1..MaxRepos |->
        [name |-> ((j + v) % MaxRepos) + 1, body |-> BodyAt(j * v)]]
Payloads == {PayloadAt(v) : v \in 1..NumPayloads} \cup {<<>>}
\* license=None and the license keys asked for
Licenses == Leaves \cup {NoValue}
NoOrgAttr == [set |-> FALSE, val |-> NoUrl]
NoReposAttr == [set |-> FALSE, val |-> <<>>]
NoRet ==
    [op |-> "none", inst |-> 0, license |-> NoValue, kind |-> "none",
     url |-> NoUrl, names |-> <<>>]
GhInit ==
    /\ gattrs = [cl \in Instances |->
                    [_org |-> NoOrgAttr, _repos_payload |-> NoReposAttr]]
    /\ gjLog = [cl \in Instances |-> <<>>]
    /\ gret = NoRet
    /\ gcalls = 0

\* ------------- 1-batch_processing.py: the ages a row may carry
\* an integer, a decimal in tenths (25.9 is 259), a string (n < 0: not an
\* integer literal) or NULL
AgeInputs ==
    {[t |-> "int", n |-> MinAge], [t |-> "int", n |-> MinAge + 1],
     [t |-> "dec", n |-> 10 * MinAge + 9], [t |-> "str", n |-> 0 - 1],
     [t |-> "none", n |-> 0]}
BpInit ==
    /\ utable = <<>>
    /\ bsize = 1
    /\ bpc = "idle"
    /\ bcur = 0
    /\ bbatches = <<>>
    /\ bidx = 0
    /\ bout = <<>>
    /\ bskipped = <<>>
    /\ bfailed = FALSE

\* ------------- messaging_app/chats: users, requests
Users == 1..NumUsers
\* user ids a request may name; 0 is a well-formed id of no user
UserIds == 0..NumUsers
RECURSIVE SeqsUpTo(_, _)
SeqsUpTo(S, n) ==
    IF n = 0 THEN {<<>>}
    ELSE LET shorter == SeqsUpTo(S, n - 1)
         IN  shorter \cup {Append(s, x) : s \in {t \in shorter : Len(t) = n - 1},
                                          x \in S}
\* request.data.get('participant_ids', []): a list of ids, or not a list
ParticipantIds ==
    [list : {TRUE}, ids : SeqsUpTo(UserIds, MaxIds)]
        \cup {[list |-> FALSE, ids |-> <<>>]}
NoResponse ==
    [op |-> "none", user |-> 0, pids |-> [list |-> FALSE, ids |-> <<>>],
     status |-> 0]
ChatInit ==
    /\ conversations = <<>>
    /\ messages = <<>>
    /\ response = NoResponse

Init ==
    /\ ScopeInit /\ RetryInit /\ FetchInit /\ CacheInit /\ StreamInit
    /\ AgesInit /\ ConcInit /\ InstInit /\ NestInit /\ GhInit /\ BpInit
    /\ ChatInit

\* ------------------------------------------------------------ sqlite3 calls
\* cursor.execute("UPDATE users SET email = ? WHERE id = ?", (val, id))
Execute(view, id, val) == [view EXCEPT ![id] = val]

\* conn.commit(): publishes the connection's view; a commit that raises
\* publishes nothing
CommitDb(ok) == IF ok THEN txn ELSE db

\* conn.rollback(): the view falls back to the committed rows; a rollback
\* that raises leaves the view as it was
RollbackTxn(ok) == IF ok THEN db ELSE txn

\* How the work behaves: "ok" writes and returns, "fail_after_write" writes
\* and raises, "fail" raises in execute() without having written.
Modes == {"ok", "fail_after_write", "fail"}
WorkWrites(m) == m \in {"ok", "fail_after_write"}
WorkReturns(m) == m = "ok"

\* ------------------------------------------------------------- the caller
\* The caller reads the rows (get_user_email), then calls the operation.
Begin(k, id, val, q, m) ==
    /\ pc = "idle"
    /\ scope' = k
    /\ arg' = [id |-> id, val |-> val, query |-> q, mode |-> m]
    /\ before' = db
    /\ conn' = "none"
    /\ txn' = db
    /\ calls' = <<>>
    /\ workRes' = "notrun"
    /\ wrote' = FALSE
    /\ exc' = "none"
    /\ outcome' = "none"
    /\ pc' = CASE k = "decorated" -> "wdc_connect"
               [] k = "DatabaseConnection" -> "dbc_enter"
               [] OTHER -> "eq_enter"
    /\ UNCHANGED <<db, after>>
    /\ UNCHANGED notScope

\* ------------------------------ 2-transactional.py: with_db_connection
\* lines 18-21: conn = None; conn = sqlite3.connect('users.db')
WdcConnect(ok) ==
    /\ pc = "wdc_connect"
    /\ calls' = Append(calls, "connect")
    /\ conn' = IF ok THEN "open" ELSE "none"
    /\ txn' = db
    /\ exc' = IF ok THEN "none" ELSE "ConnectError"
    /\ pc' = IF ok THEN "tx_work" ELSE "wdc_finally"
    /\ UNCHANGED <<db, scope, arg, workRes, wrote, outcome, before, after>>
    /\ UNCHANGED notScope

\* ------------------------------ 2-transactional.py: transactional.wrapper
\* line 57 and what follows it: func returned, then conn.commit(); func
\* raised, then the except clause
TxAfterWork_AlwaysCommit(returned) == "tx_commit"
TxAfterWork(returned) == IF returned THEN "tx_commit" ELSE "tx_rollback"

\* line 57: result = func(conn, *args, **kwargs), the decorated function
\* (update_user_email, update_user_email_with_simulated_error)
TxWork ==
    /\ pc = "tx_work"
    /\ calls' = Append(calls, "execute")
    /\ txn' = IF WorkWrites(arg.mode) THEN Execute(txn, arg.id, arg.val) ELSE txn
    /\ wrote' = WorkWrites(arg.mode)
    /\ workRes' = IF WorkReturns(arg.mode) THEN "returned" ELSE "raised"
    /\ exc' = IF WorkReturns(arg.mode) THEN "none" ELSE "WorkError"
    /\ pc' = TxAfterWork(WorkReturns(arg.mode))
    /\ UNCHANGED <<db, conn, scope, arg, outcome, before, after>>
    /\ UNCHANGED notScope

\* lines 58-61: conn.commit() stands inside the try block, so an error it
\* raises is caught by `except Exception` like an error of the work
TxAfterCommit(ok) == IF ok THEN "wdc_finally" ELSE "tx_rollback"

TxCommit(ok) ==
    /\ pc = "tx_commit"
    /\ calls' = Append(calls, "commit")
    /\ db' = CommitDb(ok)
    /\ exc' = IF ok THEN "none" ELSE "CommitError"
    /\ pc' = TxAfterCommit(ok)
    /\ UNCHANGED <<conn, txn, scope, arg, workRes, wrote, outcome, before, after>>
    /\ UNCHANGED notScope

\* lines 61-65: conn.rollback() and then `raise`, which re-raises the caught
\* error; an error raised by rollback() itself leaves the except clause
\* before `raise` is reached and is the one that propagates
TxReraise(caught, ok) == IF ok THEN caught ELSE "RollbackError"

TxRollback(ok) ==
    /\ pc = "tx_rollback"
    /\ calls' = Append(calls, "rollback")
    /\ txn' = RollbackTxn(ok)
    /\ exc' = TxReraise(exc, ok)
    /\ pc' = "wdc_finally"
    /\ UNCHANGED <<db, conn, scope, arg, workRes, wrote, outcome, before, after>>
    /\ UNCHANGED notScope

\* ------------------------------ 2-transactional.py: with_db_connection
\* lines 34-37: finally: if conn: conn.close()
WdcCloses_OnlyOnSuccess(c) == c = "open" /\ exc = "none"
WdcCloses_Unguarded(c) == TRUE
WdcCloses(c) == c = "open"

\* lines 26-39: return result, or log and re-raise; the finally clause runs
\* on both ways out
WdcFinally ==
    /\ pc = "wdc_finally"
    /\ calls' = IF WdcCloses(conn) THEN Append(calls, "close") ELSE calls
    /\ conn' = IF WdcCloses(conn) THEN "closed" ELSE conn
    /\ outcome' = IF exc = "none" THEN "returned" ELSE exc
    /\ pc' = "done"
    /\ UNCHANGED <<db, txn, scope, arg, workRes, wrote, exc, before, after>>
    /\ UNCHANGED notScope

\* ------------------ 0-databaseconnection.py and 1-execute.py: __exit__
\* `if exc_type: ... rollback() else: ... commit()`
ExitOp_AlwaysCommit(raisedInBlock) == "commit"
ExitOp(raisedInBlock) == IF raisedInBlock THEN "rollback" ELSE "commit"

\* cursor.close() and conn.close() follow the commit or rollback outside any
\* try/finally: they are reached only when that call returned
ExitCloses(c, ok) == c = "open" /\ ok

\* __exit__(exc_type, exc_val, exc_tb) as a whole; it returns None, so an
\* error of the with block propagates once __exit__ has returned
ScopeExit(ok) ==
    LET op == ExitOp(exc # "none")
        closes == ExitCloses(conn, ok)
        propagated == IF ok THEN exc
                      ELSE IF op = "commit" THEN "CommitError" ELSE "RollbackError"
    IN  /\ calls' = calls \o (IF conn = "open" THEN <<op>> ELSE <<>>)
                          \o (IF closes THEN <<"close">> ELSE <<>>)
        /\ db' = IF op = "commit" /\ conn = "open" THEN CommitDb(ok) ELSE db
        /\ txn' = IF op = "rollback" /\ conn = "open" THEN RollbackTxn(ok) ELSE txn
        /\ conn' = IF closes THEN "closed" ELSE conn
        /\ exc' = propagated
        /\ outcome' = IF propagated = "none" THEN "returned" ELSE propagated
        /\ pc' = "done"
        /\ UNCHANGED <<scope, arg, workRes, wrote, before, after>>
        /\ UNCHANGED notScope

\* ------------------------- 0-databaseconnection.py: DatabaseConnection
\* __enter__: connect and open a cursor; an error of connect is logged and
\* re-raised, and __exit__ is then never called
DbcEnter(ok) ==
    /\ pc = "dbc_enter"
    /\ calls' = Append(calls, "connect")
    /\ conn' = IF ok THEN "open" ELSE "none"
    /\ txn' = db
    /\ exc' = IF ok THEN "none" ELSE "ConnectError"
    /\ outcome' = IF ok THEN "none" ELSE "ConnectError"
    /\ pc' = IF ok THEN "dbc_body" ELSE "done"
    /\ UNCHANGED <<db, scope, arg, workRes, wrote, before, after>>
    /\ UNCHANGED notScope

\* the with block (lines 106-117, 128-135): it executes an UPDATE and
\* returns, or raises
DbcBody ==
    /\ pc = "dbc_body"
    /\ calls' = Append(calls, "execute")
    /\ txn' = IF WorkWrites(arg.mode) THEN Execute(txn, arg.id, arg.val) ELSE txn
    /\ wrote' = WorkWrites(arg.mode)
    /\ workRes' = IF WorkReturns(arg.mode) THEN "returned" ELSE "raised"
    /\ exc' = IF WorkReturns(arg.mode) THEN "none" ELSE "WorkError"
    /\ pc' = "dbc_exit"
    /\ UNCHANGED <<db, conn, scope, arg, outcome, before, after>>
    /\ UNCHANGED notScope

DbcExit(ok) ==
    /\ pc = "dbc_exit"
    /\ ScopeExit(ok)

\* ------------------------------------------ 1-execute.py: ExecuteQuery
\* The except clauses of __enter__ (lines 53-66): `if self.conn: rollback()`
\* and `raise`; nothing closes the connection there, and __exit__ is not
\* called for a with statement whose __enter__ raised
EnterFailCalls(c) == IF c = "open" THEN <<"rollback">> ELSE <<>>

EnterFailConn(c) == c

\* line 39: `if not self.query` (q: the query text is a non-empty string)
QueryMissing_Never(q) == FALSE
QueryMissing(q) == ~q

\* __enter__ as a whole: the query text is checked, the connection opened,
\* the query executed (mode "fail": execute raises) and its rows fetched
EqEnter(connOk, rbOk) ==
    /\ pc = "eq_enter"
    /\ IF QueryMissing(arg.query)
       THEN \* line 39-40: raise ValueError before anything is opened
            /\ calls' = calls
            /\ conn' = "none"
            /\ txn' = txn
            /\ wrote' = FALSE
            /\ workRes' = "notrun"
            /\ exc' = "ValueError"
            /\ outcome' = "ValueError"
            /\ pc' = "done"
       ELSE IF ~connOk
       THEN \* line 43 raises: self.conn is still None in the except clause
            /\ calls' = Append(calls, "connect") \o EnterFailCalls("none")
            /\ conn' = EnterFailConn("none")
            /\ txn' = txn
            /\ wrote' = FALSE
            /\ workRes' = "notrun"
            /\ exc' = "ConnectError"
            /\ outcome' = "ConnectError"
            /\ pc' = "done"
       ELSE IF arg.mode = "fail"
       THEN \* line 48 raises: rollback, then re-raise
            /\ calls' = calls \o <<"connect", "execute">> \o EnterFailCalls("open")
            /\ conn' = EnterFailConn("open")
            /\ txn' = RollbackTxn(rbOk)
            /\ wrote' = FALSE
            /\ workRes' = "raised"
            /\ exc' = IF rbOk THEN "WorkError" ELSE "RollbackError"
            /\ outcome' = IF rbOk THEN "WorkError" ELSE "RollbackError"
            /\ pc' = "done"
       ELSE \* lines 43-52: the query ran and its rows are returned
            /\ calls' = calls \o <<"connect", "execute">>
            /\ conn' = "open"
            /\ txn' = Execute(db, arg.id, arg.val)
            /\ wrote' = TRUE
            /\ workRes' = "notrun"
            /\ exc' = "none"
            /\ outcome' = "none"
            /\ pc' = "eq_body"
    /\ UNCHANGED <<db, scope, arg, before, after>>
    /\ UNCHANGED notScope

\* the with block: it uses the rows and returns, or raises
EqBody ==
    /\ pc = "eq_body"
    /\ workRes' = IF WorkReturns(arg.mode) THEN "returned" ELSE "raised"
    /\ exc' = IF WorkReturns(arg.mode) THEN "none" ELSE "WorkError"
    /\ pc' = "eq_exit"
    /\ UNCHANGED <<db, conn, txn, calls, scope, arg, wrote, outcome, before, after>>
    /\ UNCHANGED notScope

EqExit(ok) ==
    /\ pc = "eq_exit"
    /\ ScopeExit(ok)

\* ------------------------------------------------------------- the caller
\* The caller reads the rows again on a connection of its own
\* (get_user_email, or a second with block): it sees the committed rows.
Verify ==
    /\ pc = "done"
    /\ after' = db
    /\ pc' = "checked"
    /\ UNCHANGED <<db, conn, txn, calls, scope, arg, workRes, wrote, exc,
                   outcome, before>>
    /\ UNCHANGED notScope

\* The next operation may start.
Finish ==
    /\ pc = "checked"
    /\ pc' = "idle"
    /\ UNCHANGED <<db, conn, txn, calls, scope, arg, workRes, wrote, exc,
                   outcome, before, after>>
    /\ UNCHANGED notScope

Next ==
    \/ \E k \in Scopes, id \in Ids, val \in Vals, q \in BOOLEAN, m \in Modes :
          Begin(k, id, val, q, m)
    \/ \E ok \in BOOLEAN : WdcConnect(ok)
    \/ TxWork
    \/ \E ok \in BOOLEAN : TxCommit(ok)
    \/ \E ok \in BOOLEAN : TxRollback(ok)
    \/ WdcFinally
    \/ \E ok \in BOOLEAN : DbcEnter(ok)
    \/ DbcBody
    \/ \E ok \in BOOLEAN : DbcExit(ok)
    \/ \E connOk \in BOOLEAN, rbOk \in BOOLEAN : EqEnter(connOk, rbOk)
    \/ EqBody
    \/ \E ok \in BOOLEAN : EqExit(ok)
    \/ Verify
    \/ Finish

Spec == Init /\ [][Next]_vars

\* ---------------------------- 3-retry_on_failure.py: retry_on_failure
\* The caller calls the wrapped function: retry_on_failure(retries, delay)
\* has built wrapper, and its for loop starts.
RetryCall(r, d) ==
    /\ rpc = "idle"
    /\ retries' = r
    /\ delay' = d
    /\ i' = 0
    /\ events' = <<>>
    /\ attemptErr' = 0
    /\ result' = [kind |-> "unset", attempt |-> 0]
    /\ raised' = 0
    /\ rpc' = "loop"
    /\ UNCHANGED notRetry

\* line 53: for i in range(retries + 1)
InRange_OneShort(n, r) == n >= 0 /\ n < r
InRange(n, r) == n >= 0 /\ n < r + 1

\* lines 54-56: one attempt, return func(*args, **kwargs): attempt i + 1
\* returns its value, or raises its error, which the except clause catches
RetryAttempt(ok) ==
    /\ rpc = "loop"
    /\ InRange(i, retries)
    /\ events' = Append(events, [e |-> "call", n |-> i + 1])
    /\ IF ok
       THEN /\ result' = [kind |-> "value", attempt |-> i + 1]
            /\ attemptErr' = attemptErr
            /\ rpc' = "returned"
       ELSE /\ result' = result
            /\ attemptErr' = i + 1
            /\ rpc' = "except"
    /\ UNCHANGED <<retries, delay, i, raised>>
    /\ UNCHANGED notRetry

\* line 57: if i < retries, sleep and go on; else raise
RetriesLeft_OffByOne(n, r) == n <= r
RetriesLeft(n, r) == n < r

\* line 59: time.sleep(delay), the same delay after every failed attempt
SleepFor_Backoff(d, n) == d * (n + 1)
SleepFor(d, n) == d

\* (a variant of the except clause that sleeps before it looks at i)
RetryExcept_SleepFirst ==
    /\ rpc = "except"
    /\ events' = Append(events, [e |-> "sleep", n |-> SleepFor(delay, i)])
    /\ IF RetriesLeft(i, retries)
       THEN /\ i' = i + 1
            /\ raised' = raised
            /\ rpc' = "loop"
       ELSE /\ i' = i
            /\ raised' = attemptErr
            /\ rpc' = "raised"
    /\ UNCHANGED <<retries, delay, attemptErr, result>>
    /\ UNCHANGED notRetry

\* lines 57-62: the except clause: time.sleep(delay) and the next turn of
\* the loop, or `raise` of the error just caught
RetryExcept ==
    /\ rpc = "except"
    /\ IF RetriesLeft(i, retries)
       THEN /\ events' = Append(events, [e |-> "sleep", n |-> SleepFor(delay, i)])
            /\ i' = i + 1
            /\ raised' = raised
            /\ rpc' = "loop"
       ELSE /\ events' = events
            /\ i' = i
            /\ raised' = attemptErr
            /\ rpc' = "raised"
    /\ UNCHANGED <<retries, delay, attemptErr, result>>
    /\ UNCHANGED notRetry

\* line 53 with an empty range (retries + 1 <= 0): the loop body never runs
\* and wrapper falls off its end, returning None
RetryFallThrough ==
    /\ rpc = "loop"
    /\ ~InRange(i, retries)
    /\ result' = [kind |-> "None", attempt |-> 0]
    /\ rpc' = "returned"
    /\ UNCHANGED <<retries, delay, i, events, attemptErr, raised>>
    /\ UNCHANGED notRetry

\* The caller has its value or its error; the next call may start.
RetryFinish ==
    /\ rpc \in {"returned", "raised"}
    /\ rpc' = "idle"
    /\ UNCHANGED <<retries, delay, i, events, attemptErr, result, raised>>
    /\ UNCHANGED notRetry

RetryNext ==
    \/ \E r \in -1..MaxRetries, d \in 1..MaxDelay : RetryCall(r, d)
    \/ \E ok \in BOOLEAN : RetryAttempt(ok)
    \/ RetryExcept
    \/ RetryFallThrough
    \/ RetryFinish

SpecRetry == Init /\ [][RetryNext]_vars

\* ------------------ 3-retry_on_failure.py: fetch_users_with_retry
\* fetch_users_with_retry is with_db_connection(retry_on_failure(3, 1)(f)):
\* the connection wrapper is the outer one, the retry loop runs inside it.
\* The caller calls fetch_users_with_retry().
FetchCall ==
    /\ fpc = "idle"
    /\ fconns < MaxFetchCalls
    /\ fcur' = 0
    /\ fattempts' = <<>>
    /\ fi' = 0
    /\ fout' = "none"
    /\ fpc' = "connect"
    /\ UNCHANGED <<fconns, fopen, failureCount>>
    /\ UNCHANGED notFetch

\* with_db_connection.wrapper, lines 18-25: conn = sqlite3.connect(...), then
\* func(conn, ...), which is the retry wrapper: its loop starts
FetchConnect(ok) ==
    /\ fpc = "connect"
    /\ IF ok
       THEN /\ fconns' = fconns + 1
            /\ fcur' = fconns + 1
            /\ fopen' = fopen \cup {fconns + 1}
            /\ fout' = fout
            /\ fpc' = "loop"
       ELSE /\ UNCHANGED <<fconns, fcur, fopen>>
            /\ fout' = "raised"
            /\ fpc' = "finally"
    /\ UNCHANGED <<fattempts, fi, failureCount>>
    /\ UNCHANGED notFetch

\* The connection an attempt runs with: wrapper(*args) passes on the args it
\* was called with, and conn is the first of them
AttemptConn(held) == held

\* retry wrapper lines 53-56 around fetch_users_with_retry lines 78-87: one
\* attempt; the function raises its simulated error while _failure_count <
\* _max_failures, and else runs the query, which may fail as well
FetchAttempt(dbOk) ==
    /\ fpc = "loop"
    /\ InRange(fi, FetchRetries)
    /\ fattempts' = Append(fattempts, [conn |-> AttemptConn(fcur), open |-> fopen])
    /\ IF failureCount < MaxFailures
       THEN /\ failureCount' = failureCount + 1
            /\ fpc' = "except"
            /\ fout' = fout
       ELSE /\ failureCount' = failureCount
            /\ fpc' = IF dbOk THEN "finally" ELSE "except"
            /\ fout' = IF dbOk THEN "returned" ELSE fout
    /\ UNCHANGED <<fconns, fcur, fopen, fi>>
    /\ UNCHANGED notFetch

\* retry wrapper lines 56-62: sleep and loop on, or raise
FetchExcept ==
    /\ fpc = "except"
    /\ IF RetriesLeft(fi, FetchRetries)
       THEN /\ fi' = fi + 1
            /\ fout' = fout
            /\ fpc' = "loop"
       ELSE /\ fi' = fi
            /\ fout' = "raised"
            /\ fpc' = "finally"
    /\ UNCHANGED <<fconns, fcur, fopen, fattempts, failureCount>>
    /\ UNCHANGED notFetch

\* with_db_connection.wrapper, lines 33-37: finally: if conn: conn.close()
FetchFinally ==
    /\ fpc = "finally"
    /\ fopen' = IF fcur # 0 THEN fopen \ {fcur} ELSE fopen
    /\ fpc' = "done"
    /\ UNCHANGED <<fconns, fcur, fattempts, fi, failureCount, fout>>
    /\ UNCHANGED notFetch

\* __main__, lines 113-119: the caller has its rows or its error; it may
\* reset _failure_count (line 117) before it calls again
FetchFinish(reset) ==
    /\ fpc = "done"
    /\ failureCount' = IF reset THEN 0 ELSE failureCount
    /\ fpc' = "idle"
    /\ UNCHANGED <<fconns, fcur, fopen, fattempts, fi, fout>>
    /\ UNCHANGED notFetch

FetchNext ==
    \/ FetchCall
    \/ \E ok \in BOOLEAN : FetchConnect(ok)
    \/ \E dbOk \in BOOLEAN : FetchAttempt(dbOk)
    \/ FetchExcept
    \/ FetchFinally
    \/ \E reset \in BOOLEAN : FetchFinish(reset)

SpecFetch == Init /\ [][FetchNext]_vars

\* ------------------------------------ 4-cache_query.py: cache_query
\* fetch_users_with_cache, lines 77-79: the rows the query selects from the
\* table as it is now
Rows(q, version) == <<q[1], version>>

\* line 55: cache_key = query, the string as it was passed
CacheKey_Normalised(q) == <<q[1], 1>>
CacheKey(q) == q

\* line 57: if cache_key in query_cache
IsHit_Fresh(cache, k) == k \in DOMAIN cache /\ cache[k][2] = tver
IsHit(cache, k) == k \in DOMAIN cache

\* line 64: query_cache[cache_key] = result
StoreInto_FirstWins(cache, k, v) ==
    [x \in DOMAIN cache \cup {k} |-> IF x \in DOMAIN cache THEN cache[x] ELSE v]
StoreInto(cache, k, v) ==
    [x \in DOMAIN cache \cup {k} |-> IF x = k THEN v ELSE cache[x]]

\* line 63: func raises; the error leaves wrapper before line 64 is reached
AfterRaise_StoreNone(cache, k) == StoreInto(cache, k, NoRows)
AfterRaise(cache, k) == cache

\* A call for q is between its miss and its store.
Pending(q) == \E c \in Callers : cpc[c] \in {"exec", "store"} /\ cq[c] = q

\* The caller calls the wrapped function with a query string.
CacheCall(c, q) ==
    /\ cpc[c] = "idle"
    /\ ncalls < MaxCacheCalls
    /\ ncalls' = ncalls + 1
    /\ cq' = [cq EXCEPT ![c] = q]
    /\ cres' = [cres EXCEPT ![c] = NoRows]
    /\ cret' = [cret EXCEPT ![c] = NoReturn]
    /\ cpc' = [cpc EXCEPT ![c] = "lookup"]
    /\ UNCHANGED <<tver, queryCache, execLog, raisedCnt, stored>>
    /\ UNCHANGED notCache

\* lines 55-61: the key is looked up; a hit returns the stored result
CacheLookup(c) ==
    /\ cpc[c] = "lookup"
    /\ IF IsHit(queryCache, CacheKey(cq[c]))
       THEN /\ cret' = [cret EXCEPT ![c] =
                          [kind |-> "hit", val |-> queryCache[CacheKey(cq[c])],
                           settled |-> ~Pending(cq[c])]]
            /\ cpc' = [cpc EXCEPT ![c] = "done"]
       ELSE /\ cret' = cret
            /\ cpc' = [cpc EXCEPT ![c] = "exec"]
    /\ UNCHANGED <<tver, queryCache, cq, cres, ncalls, execLog, raisedCnt, stored>>
    /\ UNCHANGED notCache

\* line 63: result = func(conn, query, ...): the query runs, or raises, and
\* then the error leaves wrapper with nothing stored
CacheExec(c, ok) ==
    /\ cpc[c] = "exec"
    /\ IF ok
       THEN /\ cres' = [cres EXCEPT ![c] = Rows(cq[c], tver)]
            /\ execLog' = [execLog EXCEPT ![cq[c]] = Append(@, Rows(cq[c], tver))]
            /\ raisedCnt' = raisedCnt
            /\ cret' = cret
            /\ queryCache' = queryCache
            /\ cpc' = [cpc EXCEPT ![c] = "store"]
       ELSE /\ cres' = cres
            /\ queryCache' = AfterRaise(queryCache, CacheKey(cq[c]))
            /\ execLog' = execLog
            /\ raisedCnt' = [raisedCnt EXCEPT ![cq[c]] = @ + 1]
            /\ cret' = [cret EXCEPT ![c] =
                          [kind |-> "error", val |-> NoRows, settled |-> FALSE]]
            /\ cpc' = [cpc EXCEPT ![c] = "done"]
    /\ UNCHANGED <<tver, cq, ncalls, stored>>
    /\ UNCHANGED notCache

\* lines 64-66: the result is stored under the key and returned
CacheStore(c) ==
    /\ cpc[c] = "store"
    /\ queryCache' = StoreInto(queryCache, CacheKey(cq[c]), cres[c])
    /\ stored' = [stored EXCEPT ![cq[c]] = Append(@, cres[c])]
    /\ cret' = [cret EXCEPT ![c] =
                  [kind |-> "miss", val |-> cres[c], settled |-> FALSE]]
    /\ cpc' = [cpc EXCEPT ![c] = "done"]
    /\ UNCHANGED <<tver, cq, cres, ncalls, execLog, raisedCnt>>
    /\ UNCHANGED notCache

\* The caller has its rows or its error.
CacheReturn(c) ==
    /\ cpc[c] = "done"
    /\ cpc' = [cpc EXCEPT ![c] = "idle"]
    /\ UNCHANGED <<tver, queryCache, cq, cres, cret, ncalls, execLog,
                   raisedCnt, stored>>
    /\ UNCHANGED notCache

\* The users table is modified (rows inserted or updated, as setup_db does).
TableWrite ==
    /\ tver < MaxVer
    /\ tver' = tver + 1
    /\ UNCHANGED <<queryCache, cpc, cq, cres, cret, ncalls, execLog,
                   raisedCnt, stored>>
    /\ UNCHANGED notCache

\* One caller: every call ends before the next starts.
CacheNext ==
    \/ \E c \in {1}, q \in Queries : CacheCall(c, q)
    \/ \E c \in {1} : CacheLookup(c)
    \/ \E c \in {1}, ok \in BOOLEAN : CacheExec(c, ok)
    \/ \E c \in {1} : CacheStore(c)
    \/ \E c \in {1} : CacheReturn(c)
    \/ TableWrite

SpecCache == Init /\ [][CacheNext]_vars

\* Two callers (threads) whose calls interleave statement by statement.
CacheRaceNext ==
    \/ \E c \in Callers, q \in Queries : CacheCall(c, q)
    \/ \E c \in Callers : CacheLookup(c)
    \/ \E c \in Callers, ok \in BOOLEAN : CacheExec(c, ok)
    \/ \E c \in Callers : CacheStore(c)
    \/ \E c \in Callers : CacheReturn(c)
    \/ TableWrite

SpecCacheRace == Init /\ [][CacheRaceNext]_vars

\* ------------------- python-generators-0x00: the three stream generators
Min(a, b) == IF a < b THEN a ELSE b

\* SELECT ... FROM user_data over a table of n rows, in scan order
Table(n) == [j \in 1..n |-> j]

RECURSIVE Flatten(_)
Flatten(units) ==
    IF units = <<>> THEN <<>> ELSE Head(units) \o Flatten(Tail(units))

\* 1-batch_processing.py line 27, 2-lazy_paginate.py line 65
Valid_ZeroOk(size) == size >= 0
Valid(size) == size > 0

\* 0-stream_users.py lines 44-46: fetchone() gave None
RowIsNone_Early(pos, n) == pos + 1 >= n
RowIsNone(pos, n) == pos >= n

\* 0-stream_users.py line 44: cursor.fetchone(), as a unit of rows
FetchOne(pos, n) == IF RowIsNone(pos, n) THEN <<>> ELSE <<pos + 1>>

\* 1-batch_processing.py line 44: cursor.fetchmany(batch_size)
FetchMany_OnlyFull(pos, size, n) ==
    IF n - pos >= size THEN [j \in 1..size |-> pos + j] ELSE <<>>
FetchMany_Double(pos, size, n) ==
    [j \in 1..Min(2 * size, n - pos) |-> pos + j]
FetchMany(pos, size, n) == [j \in 1..Min(size, n - pos) |-> pos + j]

\* 2-lazy_paginate.py lines 36-38: LIMIT page_size OFFSET offset, fetchall()
LimitOffset_Overlap(limit, off, n) ==
    IF off = 0 THEN [j \in 1..Min(limit, n) |-> j]
    ELSE [j \in 1..Min(limit, n - off + 1) |-> off + j - 1]
LimitOffset(limit, off, n) == [j \in 1..Min(limit, n - off) |-> off + j]

\* 2-lazy_paginate.py line 75: offset += page_size
NextOffset_ByOne(off, size) == off + 1
NextOffset(off, size) == off + size

\* seed.py insert_data: a row is added while no scan is under way
StreamSeed ==
    /\ gpc = "idle"
    /\ tlen < MaxRows
    /\ tlen' = tlen + 1
    /\ scanned' = [k \in Kinds |-> <<>>]
    /\ UNCHANGED <<gkind, gsize, gpc, connection, cursorPos, offset, yielded,
                   fetchLog, pulls, opened, closed, queries, storeFailed, gerr>>
    /\ UNCHANGED notStream

\* The consumer calls the generator function: a generator object is made and
\* none of the function's body runs yet.
StreamCall(kind, size) ==
    /\ gpc = "idle"
    /\ kind \in {"rows", "ages"} => size = 1
    /\ gkind' = kind
    /\ gsize' = size
    /\ gpc' = "created"
    /\ connection' = FALSE
    /\ cursorPos' = 0
    /\ offset' = 0
    /\ yielded' = <<>>
    /\ fetchLog' = <<>>
    /\ pulls' = 0
    /\ opened' = 0
    /\ closed' = 0
    /\ queries' = 0
    /\ storeFailed' = FALSE
    /\ gerr' = "none"
    /\ UNCHANGED <<tlen, scanned>>
    /\ UNCHANGED notStream

\* lines 27-28 / 65-66: raise ValueError, before the try block
RaiseValueError ==
    /\ gpc' = "raised"
    /\ gerr' = "ValueError"
    /\ pulls' = pulls + 1
    /\ UNCHANGED <<tlen, gkind, gsize, connection, cursorPos, offset, yielded,
                   fetchLog, opened, closed, queries, storeFailed, scanned>>

\* One next() on stream_users or stream_users_in_batches: on the first pull
\* connect, cursor and execute; then one fetch, whose rows are `unit` when the
\* store does not fail.  A failure is printed by the except clauses and the
\* generator ends; the finally clause closes what was opened.
CursorPull(fail, unit) ==
    /\ pulls' = pulls + 1
    /\ gerr' = gerr
    /\ offset' = offset
    /\ UNCHANGED <<tlen, gkind, gsize, scanned>>
    /\ IF gpc = "created" /\ fail = "connect"
       THEN /\ gpc' = "ended"
            /\ storeFailed' = TRUE
            /\ UNCHANGED <<connection, cursorPos, yielded, fetchLog, opened,
                           closed, queries>>
       ELSE IF gpc = "created" /\ fail = "execute"
       THEN /\ gpc' = "ended"
            /\ storeFailed' = TRUE
            /\ opened' = opened + 1
            /\ closed' = closed + 1
            /\ queries' = queries + 1
            /\ connection' = FALSE
            /\ UNCHANGED <<cursorPos, yielded, fetchLog>>
       ELSE LET op == IF gpc = "created" THEN opened + 1 ELSE opened
                qs == IF gpc = "created" THEN queries + 1 ELSE queries
                got == IF fail = "fetch" THEN <<>> ELSE unit
            IN  /\ opened' = op
                /\ queries' = qs
                /\ storeFailed' = (storeFailed \/ fail = "fetch")
                /\ fetchLog' = Append(fetchLog,
                                 [at |-> cursorPos, n |-> Len(got), cur |-> op,
                                  ok |-> fail # "fetch"])
                /\ cursorPos' = cursorPos + Len(got)
                /\ IF got = <<>>
                   THEN /\ gpc' = "ended"
                        /\ connection' = FALSE
                        /\ closed' = closed + 1
                        /\ yielded' = yielded
                   ELSE /\ gpc' = "suspended"
                        /\ connection' = TRUE
                        /\ closed' = closed
                        /\ yielded' = Append(yielded, got)

\* 0-stream_users.py lines 23-58, one next()
PullRows(fail) ==
    /\ gkind = "rows"
    /\ gpc \in {"created", "suspended"}
    /\ gpc = "suspended" => fail \in {"none", "fetch"}
    /\ CursorPull(fail, FetchOne(cursorPos, tlen))
    /\ UNCHANGED notStream

\* 4-stream_ages.py lines 24-52, one next(): stream_users with the age of
\* the row yielded in place of the row
PullAges(fail) ==
    /\ gkind = "ages"
    /\ gpc \in {"created", "suspended"}
    /\ gpc = "suspended" => fail \in {"none", "fetch"}
    /\ CursorPull(fail, FetchOne(cursorPos, tlen))
    /\ UNCHANGED notStream

\* 1-batch_processing.py lines 27-58, one next()
PullBatches(fail) ==
    /\ gkind = "batches"
    /\ gpc \in {"created", "suspended"}
    /\ gpc = "suspended" => fail \in {"none", "fetch"}
    /\ IF gpc = "created" /\ ~Valid(gsize)
       THEN fail = "none" /\ RaiseValueError
       ELSE CursorPull(fail, FetchMany(cursorPos, gsize, tlen))
    /\ UNCHANGED notStream

\* 2-lazy_paginate.py lines 65-75, one next(): the offset moves on when the
\* generator is resumed after a yield; paginate_users (lines 26-50) opens its
\* own connection, returns the page or, on any failure, [], and closes.
PullPages(fail) ==
    /\ gkind = "pages"
    /\ gpc \in {"created", "suspended"}
    /\ IF gpc = "created" /\ ~Valid(gsize)
       THEN fail = "none" /\ RaiseValueError
       ELSE LET off == IF gpc = "created" THEN 0 ELSE NextOffset(offset, gsize)
                page == IF fail = "none" THEN LimitOffset(gsize, off, tlen)
                        ELSE <<>>
                op == IF fail = "connect" THEN opened ELSE opened + 1
            IN  /\ pulls' = pulls + 1
                /\ offset' = off
                /\ opened' = op
                /\ closed' = IF fail = "connect" THEN closed ELSE closed + 1
                /\ queries' = IF fail = "connect" THEN queries ELSE queries + 1
                /\ connection' = FALSE
                /\ storeFailed' = (storeFailed \/ fail # "none")
                /\ fetchLog' = Append(fetchLog,
                                 [at |-> off, n |-> Len(page), cur |-> op,
                                  ok |-> fail = "none"])
                /\ IF page = <<>>
                   THEN gpc' = "ended" /\ yielded' = yielded
                   ELSE gpc' = "suspended" /\ yielded' = Append(yielded, page)
                /\ UNCHANGED <<tlen, gkind, gsize, cursorPos, gerr, scanned>>
    /\ UNCHANGED notStream

StreamClose_NoFinally ==
    /\ gpc = "suspended"
    /\ gpc' = "closed"
    /\ UNCHANGED <<tlen, gkind, gsize, connection, cursorPos, offset, yielded,
                   fetchLog, pulls, opened, closed, queries, storeFailed, gerr,
                   scanned>>
    /\ UNCHANGED notStream

\* The consumer closes a suspended generator: GeneratorExit is raised at the
\* yield, no except clause catches it, the finally clause runs.
StreamClose ==
    /\ gpc = "suspended"
    /\ gpc' = "closed"
    /\ connection' = FALSE
    /\ closed' = IF connection THEN closed + 1 ELSE closed
    /\ UNCHANGED <<tlen, gkind, gsize, cursorPos, offset, yielded, fetchLog,
                   pulls, opened, queries, storeFailed, gerr, scanned>>
    /\ UNCHANGED notStream

\* The consumer is done with the generator; a scan that ran to its end with
\* no store failure is kept for comparison with the other generators.
StreamFinish ==
    /\ gpc \in {"ended", "raised", "closed"}
    /\ gpc' = "idle"
    /\ scanned' = IF gpc = "ended" /\ ~storeFailed
                  THEN [scanned EXCEPT ![gkind] = <<Flatten(yielded)>>]
                  ELSE scanned
    /\ UNCHANGED <<tlen, gkind, gsize, connection, cursorPos, offset, yielded,
                   fetchLog, pulls, opened, closed, queries, storeFailed, gerr>>
    /\ UNCHANGED notStream

StreamNext ==
    \/ StreamSeed
    \/ \E kind \in Kinds, size \in Sizes : StreamCall(kind, size)
    \/ \E fail \in Failures : PullRows(fail)
    \/ \E fail \in Failures : PullAges(fail)
    \/ \E fail \in Failures : PullBatches(fail)
    \/ \E fail \in Failures : PullPages(fail)
    \/ StreamClose
    \/ StreamFinish

SpecStream == Init /\ [][StreamNext]_vars

\* ------------------------------------ 4-stream_ages.py: the average age
\* line 72: f"{average_age:.2f}" of total_age / user_count, in hundredths.
\* The quotient is rounded to the nearest hundredth; an exact tie (only
\* possible when the quotient is an exact binary fraction) goes to the even
\* hundredth.
Cents(total, count) ==
    LET q == (100 * total) \div count
        r == (100 * total) % count
    IN  IF 2 * r > count THEN q + 1
        ELSE IF 2 * r < count THEN q
        ELSE IF q % 2 = 0 THEN q ELSE q + 1

\* lines 67-74: the average, or "no data" with no division
ReportOf(total, count) ==
    IF count > 0 THEN [kind |-> "average", cents |-> Cents(total, count)]
    ELSE [kind |-> "nodata", cents |-> 0]

\* lines 62-63: total_age += age
AddAge_KeepLast(total, age) == age
AddAge(total, age) == total + age

\* seed.py insert_data: a row is added while no scan is under way
AgesSeed(age) ==
    /\ apc = "idle"
    /\ Len(atable) < MaxAgeRows
    /\ atable' = Append(atable, age)
    /\ UNCHANGED <<apc, agen, agens, apos, total_age, user_count, report,
                   aopened, aclosed, afailed>>
    /\ UNCHANGED notAges

\* lines 55-61: calculate_average_age_from_stream starts; the for statement
\* calls stream_user_ages() once, which makes the generator
AgesCall ==
    /\ apc = "idle"
    /\ apc' = "running"
    /\ agen' = "created"
    /\ agens' = 1
    /\ apos' = 0
    /\ total_age' = 0
    /\ user_count' = 0
    /\ report' = NoReport
    /\ aopened' = 0
    /\ aclosed' = 0
    /\ afailed' = FALSE
    /\ UNCHANGED atable
    /\ UNCHANGED notAges

\* One round of the for loop (lines 61-63): next() on stream_user_ages
\* (lines 24-52) and, if an age was yielded, the two additions.  A failure
\* of the store is printed by the generator's except clauses and ends it.
AgesPull(fail) ==
    /\ apc = "running"
    /\ agen \in {"created", "suspended"}
    /\ agen = "suspended" => fail \in {"none", "fetch"}
    /\ UNCHANGED <<atable, agens, report>>
    /\ IF agen = "created" /\ fail = "connect"
       THEN /\ agen' = "ended"
            /\ apc' = "exhausted"
            /\ afailed' = TRUE
            /\ UNCHANGED <<apos, total_age, user_count, aopened, aclosed>>
       ELSE LET op == IF agen = "created" THEN aopened + 1 ELSE aopened
            IN  /\ aopened' = op
                /\ IF fail \in {"execute", "fetch"} \/ RowIsNone(apos, Len(atable))
                   THEN /\ agen' = "ended"
                        /\ apc' = "exhausted"
                        /\ afailed' = (afailed \/ fail # "none")
                        /\ aclosed' = aclosed + 1
                        /\ UNCHANGED <<apos, total_age, user_count>>
                   ELSE /\ agen' = "suspended"
                        /\ apc' = apc
                        /\ afailed' = afailed
                        /\ aclosed' = aclosed
                        /\ apos' = apos + 1
                        /\ total_age' = AddAge(total_age, atable[apos + 1])
                        /\ user_count' = user_count + 1
    /\ UNCHANGED notAges

\* lines 67-74: after the loop, the average or "no data" is printed
AgesReport ==
    /\ apc = "exhausted"
    /\ apc' = "reported"
    /\ report' = ReportOf(total_age, user_count)
    /\ UNCHANGED <<atable, agen, agens, apos, total_age, user_count, aopened,
                   aclosed, afailed>>
    /\ UNCHANGED notAges

\* calculate_average_age_from_stream has returned.
AgesFinish ==
    /\ apc = "reported"
    /\ apc' = "idle"
    /\ UNCHANGED <<atable, agen, agens, apos, total_age, user_count, report,
                   aopened, aclosed, afailed>>
    /\ UNCHANGED notAges

AgesNext ==
    \/ \E age \in AgeVals : AgesSeed(age)
    \/ AgesCall
    \/ \E fail \in Failures : AgesPull(fail)
    \/ AgesReport
    \/ AgesFinish

SpecAges == Init /\ [][AgesNext]_vars

\* ------------------------------------ 3-concurrent.py: fetch_concurrently
\* setup_db, lines 35-48: the ages of users 1..6
UserAges == <<30, 22, 45, 28, 55, 38>>
OlderThan == 40

\* lines 61 and 74: the ids of the rows each query selects
RowsOf(t) ==
    IF t = 1 THEN [j \in 1..Len(UserAges) |-> j]
    ELSE SelectSeq([j \in 1..Len(UserAges) |-> j],
                   LAMBDA j : UserAges[j] > OlderThan)

ErrOf(t, stage) ==
    IF t = 1 THEN (IF stage = "connect" THEN "connect1"
                   ELSE IF stage = "execute" THEN "execute1" ELSE "fetch1")
    ELSE (IF stage = "connect" THEN "connect2"
          ELSE IF stage = "execute" THEN "execute2" ELSE "fetch2")

\* lines 60 and 73: aiosqlite.connect(DB_NAME) makes a new connection
ConnOf_Shared(t, fresh) == 1
ConnOf(t, fresh) == fresh

\* lines 88-91: the value of asyncio.gather, by position of the awaitable
GatherResults_AsCompleted(res, done) == <<res[done[1]].val, res[done[2]].val>>
GatherResults(res, done) == <<res[1].val, res[2].val>>

\* asyncio.gather (return_exceptions left False) when an awaitable has
\* finished with outcome r: the first error is set on the outer future at
\* once; the results are set when every awaitable has finished.
OuterAfter_WaitAll(cur, r, res, done) ==
    IF cur.kind # "waiting" \/ Len(done) < Cardinality(Tasks) THEN cur
    ELSE IF \E t \in Tasks : res[t].kind = "error"
    THEN [kind |-> "raised", val |-> <<>>,
          err |-> res[CHOOSE t \in Tasks : res[t].kind = "error"].err]
    ELSE [kind |-> "returned", val |-> GatherResults(res, done), err |-> "none"]
OuterAfter(cur, r, res, done) ==
    IF cur.kind # "waiting" THEN cur
    ELSE IF r.kind = "error"
    THEN [kind |-> "raised", val |-> <<>>, err |-> r.err]
    ELSE IF Len(done) = Cardinality(Tasks)
    THEN [kind |-> "returned", val |-> GatherResults(res, done), err |-> "none"]
    ELSE cur

\* The task has finished with outcome r and gather's callback has run.
TaskFinished(t, r) ==
    /\ tres' = [tres EXCEPT ![t] = r]
    /\ order' = Append(order, t)
    /\ outer' = OuterAfter(outer, r, [tres EXCEPT ![t] = r], Append(order, t))

\* lines 60, 73: async with aiosqlite.connect(DB_NAME) as db
TaskConnect(t, ok) ==
    /\ tpc[t] = "new"
    /\ IF ok
       THEN LET c == ConnOf(t, Len(cowner) + 1)
            IN  /\ tconn' = [tconn EXCEPT ![t] = c]
                /\ copen' = copen \cup {c}
                /\ cowner' = IF c \in DOMAIN cowner THEN cowner
                             ELSE Append(cowner, t)
                /\ tpc' = [tpc EXCEPT ![t] = "connected"]
                /\ UNCHANGED <<tres, order, outer>>
       ELSE /\ tpc' = [tpc EXCEPT ![t] = "finished"]
            /\ TaskFinished(t, [kind |-> "error", val |-> <<>>,
                            err |-> ErrOf(t, "connect")])
            /\ UNCHANGED <<tconn, copen, cowner>>
    /\ UNCHANGED <<cuses, cout>>
    /\ UNCHANGED notConc

\* lines 61, 74: async with db.execute(...) as cursor
TaskExecute(t, ok) ==
    /\ tpc[t] = "connected"
    /\ cuses' = cuses \cup {<<tconn[t], t>>}
    /\ IF ok
       THEN /\ tpc' = [tpc EXCEPT ![t] = "cursor"]
            /\ tres' = tres
       ELSE /\ tpc' = [tpc EXCEPT ![t] = "closing"]
            /\ tres' = [tres EXCEPT ![t] = [kind |-> "error", val |-> <<>>,
                                            err |-> ErrOf(t, "execute")]]
    /\ UNCHANGED <<tconn, copen, cowner, order, outer, cout>>
    /\ UNCHANGED notConc

\* lines 62, 75: await cursor.fetchall(); the return statement then leaves
\* both async with blocks
TaskFetch(t, ok) ==
    /\ tpc[t] = "cursor"
    /\ cuses' = cuses \cup {<<tconn[t], t>>}
    /\ tpc' = [tpc EXCEPT ![t] = "closing"]
    /\ tres' = [tres EXCEPT ![t] =
                  IF ok THEN [kind |-> "rows", val |-> RowsOf(t), err |-> "none"]
                  ELSE [kind |-> "error", val |-> <<>>, err |-> ErrOf(t, "fetch")]]
    /\ UNCHANGED <<tconn, copen, cowner, order, outer, cout>>
    /\ UNCHANGED notConc

\* the __aexit__ of the async with blocks closes cursor and connection, and
\* the coroutine returns its rows or raises its error
TaskClose(t) ==
    /\ tpc[t] = "closing"
    /\ cuses' = cuses \cup {<<tconn[t], t>>}
    /\ copen' = copen \ {tconn[t]}
    /\ tpc' = [tpc EXCEPT ![t] = "finished"]
    /\ TaskFinished(t, tres[t])
    /\ UNCHANGED <<tconn, cowner, cout>>
    /\ UNCHANGED notConc

\* lines 88-93: fetch_concurrently is resumed by the outer future and
\* returns the pair or raises
ConcReturn ==
    /\ cout = NoOutcome
    /\ outer.kind # "waiting"
    /\ cout' = outer
    /\ UNCHANGED <<tpc, tconn, tres, copen, cowner, cuses, order, outer>>
    /\ UNCHANGED notConc

\* line 101: asyncio.run, once fetch_concurrently has raised, cancels a task
\* that is still running: CancelledError is raised at its await and the
\* async with blocks close what the task had opened.
TaskCancel(t) ==
    /\ cout.kind = "raised"
    /\ tpc[t] \notin {"finished", "cancelled"}
    /\ tpc' = [tpc EXCEPT ![t] = "cancelled"]
    /\ copen' = IF tconn[t] = 0 THEN copen ELSE copen \ {tconn[t]}
    /\ cuses' = IF tconn[t] = 0 THEN cuses ELSE cuses \cup {<<tconn[t], t>>}
    /\ UNCHANGED <<tconn, tres, cowner, order, outer, cout>>
    /\ UNCHANGED notConc

ConcNext ==
    \/ \E t \in Tasks, ok \in BOOLEAN : TaskConnect(t, ok)
    \/ \E t \in Tasks, ok \in BOOLEAN : TaskExecute(t, ok)
    \/ \E t \in Tasks, ok \in BOOLEAN : TaskFetch(t, ok)
    \/ \E t \in Tasks : TaskClose(t)
    \/ ConcReturn
    \/ \E t \in Tasks : TaskCancel(t)

SpecConc == Init /\ [][ConcNext]_vars

\* -------------- one resource scope, entered and exited again and again
\* A with_db_connection wrapper (1-with_db_connection.py lines 15-35), a
\* DatabaseConnection instance or an ExecuteQuery instance is made.
InstNew(k) ==
    /\ frames = <<>>
    /\ ilast # "new"
    /\ ikind' = k
    /\ selfConn' = 0
    /\ iopen' = {}
    /\ imade' = 0
    /\ ilast' = "new"
    /\ UNCHANGED frames
    /\ UNCHANGED notInst

\* Where the scope keeps the connection its close acts on: the wrapper in a
\* local of the call (line 16), the classes in self.conn (0-database
\* connection.py line 34, 1-execute.py line 43).
ClosesConn(k, attr, own) == IF k = "decorated" THEN own ELSE attr

\* The wrapper is called, or `with instance:` is entered: connect and, for
\* ExecuteQuery, the query.  A failed connect assigns nothing; a failed
\* query leaves __enter__ by its except clauses, which roll back and raise.
InstEnter(connOk, queryOk) ==
    /\ imade < MaxEnters
    /\ ikind # "ExecuteQuery" => queryOk
    /\ ~connOk => queryOk
    /\ UNCHANGED ikind
    /\ IF ~connOk
       THEN /\ ilast' = "enter_failed"
            /\ UNCHANGED <<selfConn, frames, iopen, imade>>
       ELSE LET c == imade + 1
            IN  /\ imade' = c
                /\ iopen' = iopen \cup {c}
                /\ selfConn' = IF ikind = "decorated" THEN selfConn ELSE c
                /\ frames' = IF queryOk THEN Append(frames, c) ELSE frames
                /\ ilast' = IF queryOk THEN "entered" ELSE "enter_failed"
    /\ UNCHANGED notInst

\* The innermost body ends.  The wrapper's finally clause closes the call's
\* own connection.  __exit__ of the classes commits or rolls back self.conn
\* and closes it only if that call returned; on a connection that is closed
\* already the call raises (sqlite3.ProgrammingError).
InstExit(ok) ==
    /\ frames # <<>>
    /\ ikind = "decorated" => ok
    /\ LET c == ClosesConn(ikind, selfConn, frames[Len(frames)])
           done == ikind = "decorated" \/ (ok /\ c \in iopen)
       IN  /\ iopen' = IF done THEN iopen \ {c} ELSE iopen
           /\ ilast' = IF done THEN "exited" ELSE "exit_failed"
    /\ frames' = SubSeq(frames, 1, Len(frames) - 1)
    /\ UNCHANGED <<ikind, selfConn, imade>>
    /\ UNCHANGED notInst

InstNext ==
    \/ \E k \in Scopes : InstNew(k)
    \/ \E connOk \in BOOLEAN, queryOk \in BOOLEAN : InstEnter(connOk, queryOk)
    \/ \E ok \in BOOLEAN : InstExit(ok)

SpecInst == Init /\ [][InstNext]_vars

\* ------------- test_client.py: access_nested_map, GithubOrgClient.has_license
\* line 22: isinstance(nested_map, Mapping)
IsMapping(v) == v.t = "map"

\* lines 23-24: the key KeyError is raised with
MissingKey_Last(path) == path[Len(path)]
MissingKey(path) == Head(path)

\* lines 21-25: the loop over the keys of path
RECURSIVE access_nested_map(_, _)
access_nested_map(nested_map, path) ==
    IF path = <<>>
    THEN [kind |-> "value", val |-> nested_map, key |-> "none"]
    ELSE IF ~IsMapping(nested_map) \/ Head(path) \notin DOMAIN nested_map.m
    THEN [kind |-> "KeyError", val |-> NoValue, key |-> MissingKey(path)]
    ELSE access_nested_map(nested_map.m[Head(path)], Tail(path))

\* lines 88-93: the comparison, False on KeyError
has_license_NoCatch(repo, license_key) ==
    LET r == access_nested_map(repo, <<"license", "key">>)
    IN  IF r.kind = "KeyError" THEN [kind |-> "KeyError", b |-> FALSE]
        ELSE [kind |-> "bool", b |-> (r.val = license_key)]
has_license(repo, license_key) ==
    LET r == access_nested_map(repo, <<"license", "key">>)
    IN  IF r.kind = "KeyError" THEN [kind |-> "bool", b |-> FALSE]
        ELSE [kind |-> "bool", b |-> (r.val = license_key)]

\* A caller calls access_nested_map(m, path).
NestAccess(m, path) ==
    /\ nres = NoAccess
    /\ hres = NoBool
    /\ nmap' = m
    /\ npath' = path
    /\ nres' = access_nested_map(m, path)
    /\ hres' = NoBool
    /\ UNCHANGED nkey
    /\ UNCHANGED notNest

\* A caller calls GithubOrgClient.has_license(repo, k).
NestHasLicense(repo, k) ==
    /\ nres = NoAccess
    /\ hres = NoBool
    /\ nmap' = repo
    /\ nkey' = k
    /\ hres' = has_license(repo, k)
    /\ nres' = NoAccess
    /\ UNCHANGED npath
    /\ UNCHANGED notNest

\* The caller has the value or the error.
NestReturn ==
    /\ nres # NoAccess \/ hres # NoBool
    /\ nmap' = [t |-> "map", m |-> <<>>]
    /\ npath' = <<>>
    /\ nkey' = [t |-> "leaf", v |-> 1]
    /\ nres' = NoAccess
    /\ hres' = NoBool
    /\ UNCHANGED notNest

NestNext ==
    \/ \E m \in Values2, path \in PathsUpTo(MaxPathLen) : NestAccess(m, path)
    \/ \E repo \in Values2, k \in Leaves : NestHasLicense(repo, k)
    \/ NestReturn

SpecNest == Init /\ [][NestNext]_vars

\* ------------- test_client.py: memoize, GithubOrgClient
\* line 44: hasattr(self, attr_name)
HasAttr_Never(attr) == FALSE
HasAttr(attr) == attr.set

\* lines 42-46, memoized(self): fn is called when the attribute is absent
\* and its value is set; when fn raises nothing is set.  ok and val are
\* what the call of fn does.
memoized(attr, ok, val) ==
    IF HasAttr(attr)
    THEN [attr |-> attr, kind |-> "value", val |-> attr.val,
          called |-> FALSE]
    ELSE IF ok
    THEN [attr |-> [set |-> TRUE, val |-> val], kind |-> "value",
          val |-> val, called |-> TRUE]
    ELSE [attr |-> attr, kind |-> "error", val |-> attr.val,
          called |-> TRUE]

\* lines 60-63, the property org of client cl: get_json(ORG_URL...) answers
\* with a payload whose "repos_url" is u, or raises (~ok).
org(self, cl, ok, u) ==
    LET r == memoized(self.attrs._org, ok, u)
    IN  [attrs |-> [self.attrs EXCEPT !._org = r.attr],
         log |-> IF r.called
                 THEN Append(self.log,
                             [url |-> OrgUrl(cl), ok |-> ok,
                              org |-> IF ok THEN u ELSE NoUrl,
                              repos |-> <<>>])
                 ELSE self.log,
         kind |-> r.kind, val |-> r.val]

\* lines 65-73, the property repos_payload: when absent, _public_repos_url
\* reads self.org["repos_url"] and get_json of that URL answers with p or
\* raises (~ok2).
repos_payload(self, cl, ok1, u, ok2, p) ==
    LET o == org(self, cl, ok1, u)
        r == memoized(self.attrs._repos_payload,
                      o.kind = "value" /\ ok2, p)
    IN  IF ~r.called
        THEN [attrs |-> self.attrs, log |-> self.log, kind |-> r.kind,
              val |-> r.val]
        ELSE [attrs |-> [o.attrs EXCEPT !._repos_payload = r.attr],
              log |-> IF o.kind = "value"
                      THEN Append(o.log,
                                  [url |-> o.val, ok |-> ok2,
                                   org |-> NoUrl,
                                   repos |-> IF ok2 THEN p ELSE <<>>])
                      ELSE o.log,
              kind |-> r.kind, val |-> r.val]

\* line 80: license is None or self.has_license(repo, license)
Selected_All(repo, license) == TRUE
Selected(repo, license) ==
    license = NoValue \/ has_license(repo.body, license).b

\* lines 77-81: the names of the selected repositories of the payload
RECURSIVE public_repos(_, _)
public_repos(json_payload, license) ==
    IF json_payload = <<>> THEN <<>>
    ELSE (IF Selected(Head(json_payload), license)
          THEN <<Head(json_payload).name>> ELSE <<>>)
         \o public_repos(Tail(json_payload), license)

\* A caller reads client.org.
GhOrg(cl, ok, u) ==
    /\ gret = NoRet
    /\ gcalls < MaxAccesses
    /\ LET r == org([attrs |-> gattrs[cl], log |-> gjLog[cl]], cl, ok, u)
       IN  /\ gattrs' = [gattrs EXCEPT ![cl] = r.attrs]
           /\ gjLog' = [gjLog EXCEPT ![cl] = r.log]
           /\ gret' = [op |-> "org", inst |-> cl, license |-> NoValue,
                       kind |-> r.kind,
                       url |-> IF r.kind = "value" THEN r.val ELSE NoUrl,
                       names |-> <<>>]
    /\ gcalls' = gcalls + 1
    /\ UNCHANGED notGh

\* A caller calls client.public_repos(license).
GhPublicRepos(cl, license, ok1, u, ok2, p) ==
    /\ gret = NoRet
    /\ gcalls < MaxAccesses
    /\ LET r == repos_payload([attrs |-> gattrs[cl], log |-> gjLog[cl]],
                              cl, ok1, u, ok2, p)
       IN  /\ gattrs' = [gattrs EXCEPT ![cl] = r.attrs]
           /\ gjLog' = [gjLog EXCEPT ![cl] = r.log]
           /\ gret' = [op |-> "public_repos", inst |-> cl,
                       license |-> license, kind |-> r.kind,
                       url |-> NoUrl,
                       names |-> IF r.kind = "value"
                                 THEN public_repos(r.val, license)
                                 ELSE <<>>]
    /\ gcalls' = gcalls + 1
    /\ UNCHANGED notGh

\* The caller has the value or the error.
GhReturn ==
    /\ gret # NoRet
    /\ gret' = NoRet
    /\ UNCHANGED <<gattrs, gjLog, gcalls>>
    /\ UNCHANGED notGh

GhNext ==
    \/ \E cl \in Instances, ok \in BOOLEAN, u \in ReposUrls : GhOrg(cl, ok, u)
    \/ \E cl \in Instances, license \in Licenses, ok1 \in BOOLEAN,
          u \in ReposUrls, ok2 \in BOOLEAN, p \in Payloads :
            GhPublicRepos(cl, license, ok1, u, ok2, p)
    \/ GhReturn

SpecGh == Init /\ [][GhNext]_vars

\* ------------- 1-batch_processing.py: batch_processing
\* line 80: int(user.get('age')): an int as it is, a Decimal truncated, a
\* string parsed as an integer literal (ValueError otherwise), None a
\* TypeError
ToInt(a) ==
    IF a.t = "int" THEN [ok |-> TRUE, n |-> a.n]
    ELSE IF a.t = "dec" THEN [ok |-> TRUE, n |-> a.n \div 10]
    ELSE IF a.t = "str" /\ a.n >= 0 THEN [ok |-> TRUE, n |-> a.n]
    ELSE [ok |-> FALSE, n |-> 0]

\* line 81: if age > 25
Passes_AtLeast(age) == age >= MinAge
Passes(age) == age > MinAge

\* seed.py insert_data: a row is added while no scan is under way
BpSeed(age) ==
    /\ bpc = "idle"
    /\ Len(utable) < MaxUsers
    /\ utable' = Append(utable, age)
    /\ UNCHANGED <<bsize, bpc, bcur, bbatches, bidx, bout, bskipped, bfailed>>
    /\ UNCHANGED notBp

\* batch_processing(batch_size) is called: the generator is made, none of
\* its body has run
BpCall(size) ==
    /\ bpc = "idle"
    /\ bsize' = size
    /\ bpc' = "created"
    /\ bcur' = 0
    /\ bbatches' = <<>>
    /\ bidx' = 0
    /\ bout' = <<>>
    /\ bskipped' = <<>>
    /\ bfailed' = FALSE
    /\ UNCHANGED utable
    /\ UNCHANGED notBp

\* line 73: the for statement asks stream_users_in_batches for its next
\* batch (lines 27-58): the first time the size is validated, the
\* connection opened and the query executed; fetchmany gives the batch; an
\* empty batch or a store error, which the stream swallows, ends the stream
BpFetch(fail) ==
    /\ \/ bpc = "created"
       \/ bpc = "batch" /\ bidx = Len(bbatches[Len(bbatches)])
    /\ IF bpc = "created" /\ ~Valid(bsize)
       THEN /\ bpc' = "raised"
            /\ UNCHANGED <<bcur, bbatches, bidx, bfailed>>
       ELSE IF fail
       THEN /\ bpc' = "ended"
            /\ bfailed' = TRUE
            /\ UNCHANGED <<bcur, bbatches, bidx>>
       ELSE LET batch == FetchMany(bcur, bsize, Len(utable))
            IN  IF batch = <<>>
                THEN /\ bpc' = "ended"
                     /\ UNCHANGED <<bcur, bbatches, bidx, bfailed>>
                ELSE /\ bpc' = "batch"
                     /\ bcur' = bcur + Len(batch)
                     /\ bbatches' = Append(bbatches, batch)
                     /\ bidx' = 0
                     /\ UNCHANGED bfailed
    /\ UNCHANGED <<utable, bsize, bout, bskipped>>
    /\ UNCHANGED notBp

\* lines 75-87: the next user of the batch: yielded when its age converts
\* and passes, the warning printed when the conversion raises
BpUser ==
    /\ bpc = "batch"
    /\ bidx < Len(bbatches[Len(bbatches)])
    /\ LET user == bbatches[Len(bbatches)][bidx + 1]
           age == ToInt(utable[user])
       IN  /\ bout' = IF age.ok /\ Passes(age.n)
                      THEN Append(bout, user) ELSE bout
           /\ bskipped' = IF age.ok THEN bskipped ELSE Append(bskipped, user)
    /\ bidx' = bidx + 1
    /\ UNCHANGED <<utable, bsize, bpc, bcur, bbatches, bfailed>>
    /\ UNCHANGED notBp

\* The caller's loop over batch_processing has ended, or has the error.
BpFinish ==
    /\ bpc \in {"ended", "raised"}
    /\ bpc' = "idle"
    /\ UNCHANGED <<utable, bsize, bcur, bbatches, bidx, bout, bskipped,
                   bfailed>>
    /\ UNCHANGED notBp

BpNext ==
    \/ \E age \in AgeInputs : BpSeed(age)
    \/ \E size \in Sizes : BpCall(size)
    \/ \E fail \in BOOLEAN : BpFetch(fail)
    \/ BpUser
    \/ BpFinish

SpecBp == Init /\ [][BpNext]_vars

\* ------------- messaging_app/chats/views.py
\* lines 71-73: the current user's id is appended when it is not in the list
WithCurrent(ids, user) ==
    IF \E k \in 1..Len(ids) : ids[k] = user THEN ids ELSE Append(ids, user)

\* line 77: User.objects.filter(user_id__in=participant_ids)
FoundUsers(ids) == {u \in Users : \E k \in 1..Len(ids) : ids[k] = u}

\* line 87: len(participants) < 2
TooFew_One(n) == n < 1
TooFew(n) == n < 2

\* lines 57-105, ConversationViewSet.create by an authenticated user
ConvCreate(user, pids) ==
    /\ response = NoResponse
    /\ Len(conversations) < MaxConvs
    /\ LET ids == WithCurrent(pids.ids, user)
           participants == FoundUsers(ids)
           ok == /\ pids.list
                 /\ Cardinality(participants) = Len(ids)
                 /\ ~TooFew(Cardinality(participants))
       IN  /\ conversations' = IF ok THEN Append(conversations, participants)
                               ELSE conversations
           /\ response' = [op |-> "create", user |-> user, pids |-> pids,
                           status |-> IF ok THEN 201 ELSE 400]
    /\ UNCHANGED messages
    /\ UNCHANGED notChat

\* serializers.py lines 19-46, MessageSerializer.is_valid: the writable
\* field conversation must name a stored conversation and message_body
\* must not be blank
MessageValid(conv, bodyOk) == conv \in 1..Len(conversations) /\ bodyOk

\* lines 107-134, ConversationViewSet.messages: GET lists, POST stores a
\* message of the requesting user in the conversation of the URL
ConvMessages(user, pk, method, conv, bodyOk) ==
    /\ response = NoResponse
    /\ LET status ==
               IF pk \notin 1..Len(conversations) THEN 404
               ELSE IF user \notin conversations[pk] THEN 403
               ELSE IF method = "GET" THEN 200
               ELSE IF ~MessageValid(conv, bodyOk) THEN 400
               ELSE 201
       IN  /\ status = 201 => Len(messages) < MaxMsgs
           /\ messages' = IF status = 201
                          THEN Append(messages,
                                      [sender |-> user, conversation |-> pk])
                          ELSE messages
           /\ response' = [op |-> "messages", user |-> user,
                           pids |-> NoResponse.pids, status |-> status]
    /\ UNCHANGED conversations
    /\ UNCHANGED notChat

\* lines 136-167, MessageViewSet (a ModelViewSet) answering POST: create
\* validates the serializer and perform_create saves it with the
\* requesting user as sender and the conversation of the request data
MsgCreate(user, conv, bodyOk) ==
    /\ response = NoResponse
    /\ LET ok == MessageValid(conv, bodyOk)
       IN  /\ ok => Len(messages) < MaxMsgs
           /\ messages' = IF ok
                          THEN Append(messages,
                                      [sender |-> user, conversation |-> conv])
                          ELSE messages
           /\ response' = [op |-> "message_create", user |-> user,
                           pids |-> NoResponse.pids,
                           status |-> IF ok THEN 201 ELSE 400]
    /\ UNCHANGED conversations
    /\ UNCHANGED notChat

\* The response is sent.
ChatRespond ==
    /\ response # NoResponse
    /\ response' = NoResponse
    /\ UNCHANGED <<conversations, messages>>
    /\ UNCHANGED notChat

ChatNext ==
    \/ \E user \in Users, pids \in ParticipantIds : ConvCreate(user, pids)
    \/ \E user \in Users, pk \in 0..MaxConvs, method \in {"GET", "POST"},
          conv \in 0..MaxConvs, bodyOk \in BOOLEAN :
            ConvMessages(user, pk, method, conv, bodyOk)
    \/ \E user \in Users, conv \in 0..MaxConvs, bodyOk \in BOOLEAN :
            MsgCreate(user, conv, bodyOk)
    \/ ChatRespond

SpecChat == Init /\ [][ChatNext]_vars

\* ================================================================ claims
Count(seq, x) == Cardinality({j \in DOMAIN seq : seq[j] = x})
Has(seq, x) == \E j \in DOMAIN seq : seq[j] = x
Ended == pc \in {"done", "checked"}

\* C1: every invocation of a function wrapped by transactional calls exactly
\* one of commit and rollback on the connection, whatever the work and the
\* commit call do: never both, never neither.
C1_ExactlyOneOfCommitRollback ==
    (scope = "decorated" /\ pc \in {"wdc_finally", "done", "checked"}
        /\ workRes # "notrun")
    => Count(calls, "commit") + Count(calls, "rollback") = 1

\* C2: a transactional scope (transactional, DatabaseConnection.__exit__,
\* ExecuteQuery.__exit__) calls commit if and only if the wrapped work
\* returned without raising; when the work raised it calls rollback and
\* never commit.
C2_CommitIffWorkReturned ==
    Ended =>
        /\ (Has(calls, "commit") <=> workRes = "returned")
        /\ (workRes = "raised" => Has(calls, "rollback") /\ ~Has(calls, "commit"))

C2_Witness ==
    /\ pc = "done"
    /\ scope = "decorated"
    /\ workRes = "raised"
    /\ wrote
    /\ Has(calls, "rollback")

\* C3: under with_db_connection outside transactional, on every exit path
\* (the work returns, the work raises, commit raises, rollback raises) the
\* connection that was opened is closed exactly once, and after every commit
\* or rollback call, never before one.
C3_ClosedOnceAfterCommitOrRollback ==
    /\ (scope = "decorated" /\ Ended /\ workRes # "notrun") =>
            /\ conn = "closed"
            /\ Count(calls, "close") = 1
            /\ calls[Len(calls)] = "close"
            /\ \E j \in DOMAIN calls : calls[j] \in {"commit", "rollback"}
    /\ (scope = "decorated" /\ Has(calls, "close")) =>
            \A j \in DOMAIN calls :
                calls[j] \in {"commit", "rollback"} => j < Len(calls)

C3_Witness ==
    /\ scope = "decorated"
    /\ pc = "done"
    /\ workRes = "returned"
    /\ outcome = "RollbackError"
    /\ calls = <<"connect", "execute", "commit", "rollback", "close">>

\* C4: after a transactional operation that returns successfully, a read on
\* a new connection observes the write; after one whose work raises after
\* having written, the read observes exactly the rows as they were before the
\* operation started.
C4_ReadAfterOperation ==
    pc = "checked" =>
        /\ (outcome = "returned" /\ wrote =>
                after = [before EXCEPT ![arg.id] = arg.val])
        /\ (workRes = "raised" /\ wrote => after = before)

C4_Witness ==
    /\ pc = "checked"
    /\ scope = "decorated"
    /\ workRes = "raised"
    /\ wrote
    /\ before[arg.id] # arg.val
    /\ Has(calls, "rollback")

\* C5: when the work wrapped by transactional raises error E, rollback is
\* called before anything propagates and the caller receives E itself, also
\* when the rollback call fails.
C5_OriginalErrorPropagates ==
    (scope = "decorated" /\ Ended /\ workRes = "raised")
    => (Has(calls, "rollback") /\ outcome = "WorkError")

\* C6: a DatabaseConnection closes the connection it opened exactly once on
\* every exit of the with block: the block returns, the block raises, or the
\* commit or rollback made in __exit__ raises.
C6_DatabaseConnectionClosesOnce ==
    (scope = "DatabaseConnection" /\ Ended /\ workRes # "notrun")
    => (Count(calls, "close") = 1 /\ conn = "closed")

\* C7: when the query of an ExecuteQuery fails inside __enter__ after the
\* connection was opened, the transaction is rolled back, the connection is
\* closed, and the error is then re-raised: no connection stays open.
C7_EnterFailureReleasesConnection ==
    (scope = "ExecuteQuery" /\ Ended /\ arg.mode = "fail"
        /\ Has(calls, "execute"))
    => /\ Has(calls, "rollback")
       /\ conn = "closed"
       /\ outcome \notin {"none", "returned"}

\* ---- the retry wrapper (SpecRetry)
Invocations == Count([j \in DOMAIN events |-> events[j].e], "call")
MaxAttempts == retries + 1
Finished == rpc \in {"returned", "raised"}

\* C8: a retry wrapper with a bound of N attempts (N = retries + 1) invokes
\* the operation at most N times, the first call being attempt 1; an
\* operation that fails on every attempt is invoked exactly N times and the
\* error of attempt N is raised: with the bound 3, 3 invocations and the
\* error of attempt 3.
C8_AtMostBoundAttempts ==
    /\ Invocations <= IF MaxAttempts > 0 THEN MaxAttempts ELSE 0
    /\ \A j \in DOMAIN events :
          events[j].e = "call" =>
              events[j].n = Count([m \in 1..j |-> events[m].e], "call")
    /\ (Finished /\ Invocations > 0 /\ result.kind # "value") =>
          /\ rpc = "raised"
          /\ Invocations = MaxAttempts
          /\ raised = MaxAttempts
    /\ (Finished /\ MaxAttempts = 3 /\ result.kind # "value") =>
          (Invocations = 3 /\ raised = 3)

C8_Witness ==
    /\ rpc = "raised"
    /\ MaxAttempts = 3
    /\ Invocations = 3
    /\ raised = 3

\* C9: if the operation first succeeds on attempt k, the wrapper returns the
\* result of attempt k, has waited exactly k - 1 delays, each of the fixed
\* length delay and one after each failed attempt, and does not invoke the
\* operation again after the success.
C9_SuccessOnAttemptK ==
    result.kind = "value" =>
        LET k == result.attempt IN
        /\ k \in 1..MaxAttempts
        /\ Len(events) = 2 * k - 1
        /\ \A j \in 1..k : events[2 * j - 1] = [e |-> "call", n |-> j]
        /\ \A j \in 1..(k - 1) : events[2 * j] = [e |-> "sleep", n |-> delay]

C9_Witness ==
    /\ rpc = "returned"
    /\ result = [kind |-> "value", attempt |-> 3]
    /\ delay > 1
    /\ Len(events) = 5

\* C10: when every attempt fails, the error raised to the caller is the
\* error of the last attempt made, not of an earlier one, and no delay is
\* waited after that last failed attempt.
C10_LastErrorNoTrailingDelay ==
    rpc = "raised" =>
        /\ Len(events) > 0
        /\ events[Len(events)] = [e |-> "call", n |-> raised]
        /\ raised = Invocations

C10_Witness ==
    /\ rpc = "raised"
    /\ retries = 2
    /\ raised = 3
    /\ Len(events) = 5

\* C11: retry_on_failure(retries=R, delay=D) with R >= 0 invokes the function
\* once and re-invokes it at most R more times, at most R + 1 invocations in
\* all, and sleeps D seconds exactly once between two consecutive
\* invocations (and at no other time).
C11_RetriesPlusOneInvocations ==
    retries >= 0 =>
        /\ Invocations <= retries + 1
        /\ (Finished => Invocations >= 1)
        /\ (events # <<>> => events[1].e = "call")
        /\ \A j \in 1..(Len(events) - 1) :
              /\ events[j].e = "call" => events[j + 1] = [e |-> "sleep", n |-> delay]
              /\ events[j].e = "sleep" => events[j + 1].e = "call"
        /\ (Finished => events[Len(events)].e = "call")

C11_Witness ==
    /\ rpc = "raised"
    /\ retries = 3
    /\ Invocations = 4
    /\ Len(events) = 7

\* C12: in fetch_users_with_retry every attempt runs with a connection
\* acquired fresh for that attempt: the connection of a failed attempt is
\* closed before the next attempt starts and is never handed to a later one.
C12_FreshConnectionPerAttempt ==
    \A j \in 2..Len(fattempts) :
        /\ fattempts[j].conn # fattempts[j - 1].conn
        /\ fattempts[j - 1].conn \notin fattempts[j].open

\* ---- the query cache (SpecCache: one caller; SpecCacheRace: two)
Last(seq) == seq[Len(seq)]

\* C13: over a sequential series of calls of a function wrapped by
\* cache_query the function returns a result at most once per exact query
\* string, and is executed exactly once (by the first call with that string)
\* for a string none of whose executions raised; every later call with the
\* same string returns a result equal to that first result; strings that
\* differ in any character are computed and stored separately.
C13_ComputedOncePerExactString ==
    /\ \A q \in Queries :
          /\ Len(execLog[q]) <= 1
          /\ Len(stored[q]) = Len(execLog[q]) - (IF cq[1] = q /\ cpc[1] = "store" THEN 1 ELSE 0)
          /\ (q \in DOMAIN queryCache <=> stored[q] # <<>>)
          /\ (q \in DOMAIN queryCache => queryCache[q] = execLog[q][1])
          /\ (raisedCnt[q] = 0 /\ (q \in DOMAIN queryCache \/ (cq[1] = q /\ cpc[1] = "store"))
                => Len(execLog[q]) = 1)
    /\ (cret[1].kind \in {"hit", "miss"} =>
          /\ execLog[cq[1]] # <<>>
          /\ cret[1].val = execLog[cq[1]][1])

C13_Witness ==
    /\ cpc[1] = "done"
    /\ cret[1].kind = "hit"
    /\ cq[1] = <<1, 2>>
    /\ cret[1].val[2] < tver
    /\ DOMAIN queryCache = {<<1, 1>>, <<1, 2>>}

\* C14: two callers that make a first-time call with the same query string
\* concurrently may both miss and both execute the function; the cache then
\* holds the result written last, and every later call returns it.
C14_LastWriteWins ==
    /\ \A q \in Queries :
          stored[q] # <<>> => (q \in DOMAIN queryCache /\ queryCache[q] = Last(stored[q]))
    /\ \A c \in Callers :
          (cret[c].kind = "hit" /\ cret[c].settled) =>
              cret[c].val = Last(stored[cq[c]])

C14_Witness ==
    /\ \E q \in Queries :
          /\ Len(stored[q]) = 2
          /\ stored[q][1] # stored[q][2]
          /\ cq[1] = q
          /\ cret[1].kind = "hit"
          /\ cret[1].settled
          /\ cret[1].val = stored[q][2]

\* C15: the cache never expires or evicts: the set of keys of query_cache
\* only grows, and in sequential use the value under a key never changes
\* once written, also when the table is modified afterwards.
C15_NoEvictionNoChange ==
    [][/\ DOMAIN queryCache \subseteq DOMAIN queryCache'
       /\ \A k \in DOMAIN queryCache : queryCache'[k] = queryCache[k]]_vars

C15_Witness ==
    /\ cpc[1] = "done"
    /\ cret[1].kind = "hit"
    /\ queryCache[cq[1]][2] < tver
    /\ ncalls >= 2

\* ---- the stream generators (SpecStream)
\* The scan ran to its end and no connect, execute or fetch of it failed.
WholeScan == gpc = "ended" /\ ~storeFailed
NoDuplicates(rows) ==
    \A a \in 1..Len(rows) : \A b \in 1..Len(rows) : rows[a] = rows[b] => a = b

\* C16: for every positive batch size and every finite table, the batches
\* yielded by stream_users_in_batches are non-empty, all but the last have
\* exactly batch_size rows, and concatenated they are the rows of the
\* unbatched scan in the same order (a prefix of it while the scan is under
\* way, all of it when the scan ran to its end with no store failure); a
\* row count that is not a multiple of batch_size gives a shorter last batch
\* and no error (4 rows, batch size 3: a batch of 3, then a batch of 1).
C16_BatchesConcatenateToScan ==
    (gkind = "batches" /\ gsize > 0) =>
        /\ gerr = "none"
        /\ \A j \in 1..Len(yielded) :
              /\ Len(yielded[j]) >= 1
              /\ Len(yielded[j]) <= gsize
              /\ j < Len(yielded) => Len(yielded[j]) = gsize
        /\ Flatten(yielded) = SubSeq(Table(tlen), 1, cursorPos)
        /\ WholeScan =>
              /\ Flatten(yielded) = Table(tlen)
              /\ scanned["rows"] # <<>> => Flatten(yielded) = scanned["rows"][1]
        /\ (WholeScan /\ tlen = 4 /\ gsize = 3) =>
              yielded = << <<1, 2, 3>>, <<4>> >>

C16_Witness ==
    /\ gkind = "batches"
    /\ gsize = 3
    /\ tlen = 4
    /\ WholeScan
    /\ scanned["rows"] = << <<1, 2, 3, 4>> >>
    /\ Len(yielded) = 2

\* C17: for every positive page size, with no write during the scans, the
\* pages yielded by lazy_pagination hold exactly the rows that stream_users
\* and stream_users_in_batches produce: no row twice in the pages, and, when
\* the scan ran to its end with no store failure, none skipped.
C17_PagesEqualRowsAndBatches ==
    (gkind = "pages" /\ gsize > 0) =>
        /\ NoDuplicates(Flatten(yielded))
        /\ WholeScan =>
              /\ \A r \in 1..tlen :
                    \E j \in 1..Len(yielded) : \E x \in 1..Len(yielded[j]) :
                        yielded[j][x] = r
              /\ scanned["rows"] # <<>> => Flatten(yielded) = scanned["rows"][1]
              /\ scanned["batches"] # <<>> =>
                    Flatten(yielded) = scanned["batches"][1]

C17_Witness ==
    /\ gkind = "pages"
    /\ gsize = 2
    /\ tlen = 3
    /\ WholeScan
    /\ scanned["rows"] = << <<1, 2, 3>> >>
    /\ scanned["batches"] = << <<1, 2, 3>> >>
    /\ yielded = << <<1, 2>>, <<3>> >>

\* C18: lazy_pagination fetches its first page at offset 0 and its k-th page
\* at offset (k-1)*page_size; the offset moves on by page_size only after a
\* non-empty page; the generator ends at the first empty page; with 4 rows
\* and page size 2 it fetches 2 pages of 2 rows and then one empty page.
C18_OffsetsAndFirstEmptyPage ==
    (gkind = "pages" /\ gsize > 0) =>
        /\ \A k \in 1..Len(fetchLog) :
              /\ fetchLog[k].at = (k - 1) * gsize
              /\ k < Len(fetchLog) => fetchLog[k].n >= 1
        /\ offset = (IF fetchLog = <<>> THEN 0 ELSE (Len(fetchLog) - 1) * gsize)
        /\ Len(yielded) = Cardinality({k \in 1..Len(fetchLog) : fetchLog[k].n >= 1})
        /\ gpc = "suspended" => fetchLog[Len(fetchLog)].n >= 1
        /\ gpc = "ended" => fetchLog[Len(fetchLog)].n = 0
        /\ (WholeScan /\ tlen = 4 /\ gsize = 2) =>
              /\ [k \in 1..Len(fetchLog) |-> fetchLog[k].n] = <<2, 2, 0>>
              /\ yielded = << <<1, 2>>, <<3, 4>> >>

C18_Witness ==
    /\ gkind = "pages"
    /\ gsize = 2
    /\ tlen = 4
    /\ WholeScan
    /\ Len(fetchLog) = 3
    /\ offset = 4

\* C19: stream_users yields the rows of the query result once each, in
\* cursor order; every pull issues one fetchone on the one cursor opened by
\* the first pull; with no store failure the sequence ends, for every finite
\* table, at the first pull whose fetchone reports no more rows, after every
\* row was yielded.
C19_OneFetchPerPull ==
    gkind = "rows" =>
        /\ opened <= 1
        /\ NoDuplicates(Flatten(yielded))
        /\ yielded = [j \in 1..Len(yielded) |-> <<j>>]
        /\ Len(yielded) <= tlen
        /\ Len(fetchLog) <= pulls
        /\ (opened = 1 /\ queries = 1 /\ fetchLog # <<>>) => Len(fetchLog) = pulls
        /\ \A k \in 1..Len(fetchLog) :
              /\ fetchLog[k].cur = 1
              /\ fetchLog[k].at = k - 1
              /\ k < Len(fetchLog) => fetchLog[k].n = 1
        /\ WholeScan =>
              /\ Len(yielded) = tlen
              /\ pulls = tlen + 1
              /\ Len(fetchLog) = tlen + 1
              /\ fetchLog[tlen + 1].n = 0

C19_Witness ==
    /\ gkind = "rows"
    /\ tlen = 4
    /\ WholeScan
    /\ pulls = 5
    /\ yielded = << <<1>>, <<2>>, <<3>>, <<4>> >>

\* C20: with a batch size or page size of zero or less,
\* stream_users_in_batches and lazy_pagination fail with ValueError at the
\* first pull, with no connection opened and no query issued; they never
\* yield a row.
C20_InvalidSizeFailsFirst ==
    (gkind \in {"batches", "pages"} /\ gsize <= 0) =>
        /\ opened = 0
        /\ queries = 0
        /\ fetchLog = <<>>
        /\ yielded = <<>>
        /\ ~connection
        /\ gpc \in {"created", "raised", "idle"}
        /\ pulls >= 1 => (gerr = "ValueError" /\ pulls = 1)
        /\ gpc = "raised" => pulls = 1

C20_Witness ==
    /\ gkind = "batches"
    /\ gsize = 0
    /\ gpc = "raised"
    /\ gerr = "ValueError"
    /\ tlen >= 1

RECURSIVE FetchedRows(_)
FetchedRows(log) ==
    IF log = <<>> THEN 0 ELSE Head(log).n + FetchedRows(Tail(log))
\* The most rows one fetch of the generator may return.
UnitLimit == IF gkind \in {"rows", "ages"} THEN 1 ELSE gsize

\* C21: a stream generator fetches only on demand and keeps no more than
\* the one unit it hands over: nothing is opened, queried or fetched before
\* the first pull; every pull that yields has issued exactly one fetch; a
\* fetch returns at most batch_size (page_size; one for stream_users) rows;
\* and every row fetched so far has been yielded, in units of at most that
\* size.
C21_OneFetchPerPullOnDemand ==
    /\ gpc = "created" => (fetchLog = <<>> /\ opened = 0 /\ queries = 0)
    /\ Len(fetchLog) <= pulls
    /\ gpc = "suspended" => Len(fetchLog) = pulls
    /\ \A k \in 1..Len(fetchLog) : fetchLog[k].n <= UnitLimit
    /\ \A j \in 1..Len(yielded) : Len(yielded[j]) <= UnitLimit
    /\ FetchedRows(fetchLog) = Len(Flatten(yielded))
    /\ Len(yielded) = Cardinality({k \in 1..Len(fetchLog) : fetchLog[k].n >= 1})

C21_Witness ==
    /\ gkind = "batches"
    /\ gsize = 2
    /\ tlen = 4
    /\ gpc = "suspended"
    /\ pulls = 2
    /\ Len(fetchLog) = 2
    /\ yielded = << <<1, 2>>, <<3, 4>> >>

\* C22: a failure of the store during a scan (a failed connect, query or
\* fetch) is never swallowed: once the scan has ended because of it, the
\* consumer has been given an error, so a failed scan differs from the end
\* of the data.
C22_StoreFailureReraised ==
    (storeFailed /\ gpc = "ended") => gerr # "none"

\* ---- the average age (SpecAges)
RECURSIVE SumOf(_)
SumOf(seq) == IF seq = <<>> THEN 0 ELSE Head(seq) + SumOf(Tail(seq))

\* C23: what calculate_average_age_from_stream reports is computed over all
\* rows of the table (or an error reaches its caller): it never reports an
\* average over a strict prefix of the rows and never reports "no data" for
\* a table that has rows.
C23_AverageOverAllRowsOrError ==
    apc = "reported" =>
        /\ report.kind = "average" => user_count = Len(atable)
        /\ report.kind = "nodata" => atable = <<>>

\* C24: calculate_average_age_from_stream makes one age stream and consumes
\* it once; total_age and user_count are the sum and the number of the ages
\* yielded so far; the average is computed only after the stream has ended;
\* an empty stream gives "no data" with no division; for the ages
\* 30, 22, 45, 28 the sum is 125, the count 4 and the average 31.25.
C24_RunningSumAndCount ==
    /\ agens <= 1
    /\ aopened <= 1
    /\ user_count = apos
    /\ total_age = SumOf(SubSeq(atable, 1, apos))
    /\ apc = "running" => report = NoReport
    /\ report # NoReport => agen = "ended"
    /\ apc = "reported" =>
          /\ user_count = 0 <=> report = [kind |-> "nodata", cents |-> 0]
          /\ user_count > 0 =>
                /\ report.kind = "average"
                /\ 2 * (100 * total_age - report.cents * user_count) <= user_count
                /\ 2 * (report.cents * user_count - 100 * total_age) <= user_count
    /\ (apc = "reported" /\ ~afailed /\ atable = <<30, 22, 45, 28>>) =>
          /\ total_age = 125
          /\ user_count = 4
          /\ report = [kind |-> "average", cents |-> 3125]

C24_Witness ==
    /\ apc = "reported"
    /\ ~afailed
    /\ atable = <<30, 22, 45, 28>>
    /\ report.cents = 3125

Over(t) == tpc[t] \in {"finished", "cancelled"}
\* The first task, in order of finishing, that finished with an error.
FirstFailed ==
    order[CHOOSE k \in 1..Len(order) :
            /\ tres[order[k]].kind = "error"
            /\ \A j \in 1..(k - 1) : tres[order[j]].kind # "error"]

\* C26: fetch_concurrently returns the pair (rows of async_fetch_users, rows
\* of async_fetch_older_users), in the order the two were handed to gather,
\* under every interleaving, also when the second finishes first.
C26_ResultsInSubmissionOrder ==
    /\ outer.kind = "returned" =>
          /\ outer.val = << <<1, 2, 3, 4, 5, 6>>, <<3, 5>> >>
          /\ outer.val = <<tres[1].val, tres[2].val>>
    /\ cout.kind = "returned" => cout.val = <<RowsOf(1), RowsOf(2)>>

C26_Witness ==
    /\ cout.kind = "returned"
    /\ order = <<2, 1>>

\* C27: in every interleaving each fetch uses only the connection it opened
\* itself: no connection is used by two fetches, and a connection is closed
\* by the fetch that opened it before that fetch returns or raises.
C27_OwnConnectionOnly ==
    /\ \A u \in cuses : cowner[u[1]] = u[2]
    /\ \A t \in Tasks : \A t2 \in Tasks \ {t} :
          tconn[t] # 0 => tconn[t] # tconn[t2]
    /\ \A t \in Tasks :
          /\ tpc[t] \in {"connected", "cursor", "closing"} => tconn[t] \in copen
          /\ Over(t) => tconn[t] \notin copen
    /\ outer.kind = "returned" => copen = {}

C27_Witness ==
    /\ tpc[1] = "closing"
    /\ tpc[2] = "finished"
    /\ tres[2].kind = "rows"
    /\ tconn[1] \in copen
    /\ tconn[2] # 0

\* C28: when one of the two fetches fails, gather's future is set to the
\* first error to occur at once, with the sibling still running or already
\* finished; fetch_concurrently raises that error and returns no pair: rows
\* a sibling has already returned are dropped.
C28_FirstErrorNoPartialResult ==
    /\ (\E t \in Tasks : tpc[t] = "finished" /\ tres[t].kind = "error") =>
          /\ outer.kind = "raised"
          /\ outer.err = tres[FirstFailed].err
          /\ outer.val = <<>>
    /\ outer.kind = "raised" =>
          \E t \in Tasks : tpc[t] = "finished" /\ tres[t].kind = "error"
    /\ cout # NoOutcome => cout = outer
    /\ cout.kind = "returned" =>
          \A t \in Tasks : tpc[t] = "finished" /\ tres[t].kind = "rows"

C28_Witness ==
    /\ order = <<1, 2>>
    /\ tres[1].kind = "rows"
    /\ tres[2].kind = "error"
    /\ cout.kind = "raised"
    /\ cout.err = "fetch2"
    /\ cout.val = <<>>

\* ---- one resource scope entered again and again (SpecInst)
\* The connections the scope still refers to.
Referenced ==
    IF ikind = "decorated" THEN {frames[j] : j \in 1..Len(frames)}
    ELSE {selfConn}

\* C29: at every point of any sequence of enters and exits of a resource
\* scope, the scope holds exactly one open connection for a body that is
\* running and none once it has exited, and no connection it opened earlier
\* is left open and unreferenced by entering again.
C29_OneOpenConnectionPerScope ==
    /\ iopen \subseteq Referenced
    /\ frames = <<>> => iopen = {}
    /\ frames # <<>> =>
          Cardinality(iopen) = (IF ikind = "decorated" THEN Len(frames) ELSE 1)

\* C30: when connect fails in with_db_connection or in
\* DatabaseConnection.__enter__, connect was called once, the work was never
\* invoked, no close, commit or rollback was attempted, nothing was
\* written, and the caller gets the connection error.
C30_ConnectFailureIsFatal ==
    (scope \in {"decorated", "DatabaseConnection"} /\ calls # <<>>
        /\ exc = "ConnectError") =>
        /\ calls = <<"connect">>
        /\ conn = "none"
        /\ workRes = "notrun"
        /\ ~wrote
        /\ Ended => (outcome = "ConnectError" /\ db = before)

C30_Witness ==
    /\ scope = "decorated"
    /\ pc = "done"
    /\ calls = <<"connect">>
    /\ outcome = "ConnectError"

\* C31: an ExecuteQuery entered with a missing or empty query text fails at
\* once with ValueError: no connection is opened and nothing is committed,
\* rolled back or closed.
C31_MissingQueryFailsFirst ==
    (scope = "ExecuteQuery" /\ ~arg.query /\ Ended) =>
        /\ calls = <<>>
        /\ conn = "none"
        /\ workRes = "notrun"
        /\ outcome = "ValueError"
        /\ db = before

C31_Witness ==
    /\ scope = "ExecuteQuery"
    /\ ~arg.query
    /\ pc = "done"
    /\ outcome = "ValueError"

\* ---- access_nested_map and has_license (SpecNest)
\* The value reached from v by the first k keys of path (when they resolve).
RECURSIVE At(_, _, _)
At(v, path, k) == IF k = 0 THEN v ELSE At(v, path, k - 1).m[path[k]]
\* The first k keys of path resolve from v.
RECURSIVE Resolves(_, _, _)
Resolves(v, path, k) ==
    IF k = 0 THEN TRUE
    ELSE /\ Resolves(v, path, k - 1)
         /\ At(v, path, k - 1).t = "map"
         /\ path[k] \in DOMAIN At(v, path, k - 1).m

\* C35: access_nested_map(map, path) returns the value reached by following
\* every key of path in order; when a key is missing, or the value reached
\* before a key is not a mapping, it raises KeyError naming the first key of
\* the path that could not be resolved.
C35_ValueOrFirstUnresolvedKey ==
    nres # NoAccess =>
        IF Resolves(nmap, npath, Len(npath))
        THEN nres = [kind |-> "value", val |-> At(nmap, npath, Len(npath)),
                     key |-> "none"]
        ELSE LET bad == CHOOSE k \in 1..Len(npath) :
                            /\ Resolves(nmap, npath, k - 1)
                            /\ ~Resolves(nmap, npath, k)
             IN  nres = [kind |-> "KeyError", val |-> NoValue,
                         key |-> npath[bad]]

C35_Witness ==
    /\ npath = <<"license", "key", "license">>
    /\ nmap.t = "map"
    /\ DOMAIN nmap.m = {"license"}
    /\ nmap.m["license"].t = "leaf"
    /\ nres.kind = "KeyError"
    /\ nres.key = "key"

\* C34: has_license(repo, key) returns true exactly when repo has a mapping
\* under 'license' whose 'key' entry equals key; it returns false, and does
\* not raise, when 'license' is absent, is not a mapping or has no 'key'.
C34_HasLicenseExactlyOnKeyMatch ==
    hres # NoBool =>
        /\ hres.kind = "bool"
        /\ hres.b <=>
              /\ nmap.t = "map"
              /\ "license" \in DOMAIN nmap.m
              /\ nmap.m["license"].t = "map"
              /\ "key" \in DOMAIN nmap.m["license"].m
              /\ nmap.m["license"].m["key"] = nkey

C34_Witness ==
    /\ hres = [kind |-> "bool", b |-> FALSE]
    /\ nmap.t = "map"
    /\ "license" \in DOMAIN nmap.m
    /\ nmap.m["license"].t = "leaf"

\* ---- memoize and GithubOrgClient (SpecGh)
\* No get_json call made for client cl has raised.
NeverRaised(cl) == \A k \in 1..Len(gjLog[cl]) : gjLog[cl][k].ok
\* The get_json calls of client cl with a URL of the given kind.
CallsOf(cl, kind) == {k \in 1..Len(gjLog[cl]) : gjLog[cl][k].url.kind = kind}

\* C32: for a property decorated with memoize, over any number of accesses
\* on one instance the underlying method is called exactly once, on the
\* first access, and every access returns the value of that call; two
\* instances are memoized independently (each has its own call and its own
\* value).  Stated for instances whose underlying calls returned.
C32_MemoizedCalledOnce ==
    \A cl \in Instances :
        NeverRaised(cl) =>
            /\ Cardinality(CallsOf(cl, "org")) <= 1
            /\ Cardinality(CallsOf(cl, "repos")) <= 1
            /\ gattrs[cl]._org.set <=> CallsOf(cl, "org") # {}
            /\ (gret.op = "org" /\ gret.inst = cl) =>
                  /\ Cardinality(CallsOf(cl, "org")) = 1
                  /\ gret.kind = "value"
                  /\ gret.url = gjLog[cl][1].org

C32_Witness ==
    /\ gcalls = 3
    /\ gret.op = "org"
    /\ gret.inst = 1
    /\ gret.kind = "value"
    /\ Len(gjLog[1]) = 1
    /\ Len(gjLog[2]) = 1
    /\ gjLog[2][1].ok
    /\ gjLog[2][1].org # gret.url

\* The positions of the payload whose repository has the license key (all
\* positions when no license is asked for).
Matching(payload, license) ==
    {j \in 1..Len(payload) :
        \/ license = NoValue
        \/ /\ "license" \in DOMAIN payload[j].body.m
           /\ payload[j].body.m["license"].t = "map"
           /\ "key" \in DOMAIN payload[j].body.m["license"].m
           /\ payload[j].body.m["license"].m["key"] = license}
\* The k-th smallest element of a set of positions.
Nth(S, k) == CHOOSE j \in S : Cardinality({x \in S : x <= j}) = k

\* C33: over any sequence of public_repos calls on one GithubOrgClient
\* instance, with or without a license filter, get_json is called exactly
\* twice in total, once with the organisation URL and once with the repos
\* URL of the organisation payload; each call returns the names of the
\* repositories of the payload that match the filter, in payload order.
\* Stated for instances whose get_json calls returned.
C33_TwoFetchesAndFilteredNames ==
    \A cl \in Instances :
        (NeverRaised(cl) /\ gret.op = "public_repos" /\ gret.inst = cl) =>
            /\ gret.kind = "value"
            /\ Len(gjLog[cl]) = 2
            /\ gjLog[cl][1].url = OrgUrl(cl)
            /\ gjLog[cl][2].url = gjLog[cl][1].org
            /\ LET payload == gjLog[cl][2].repos
                   M == Matching(payload, gret.license)
               IN  /\ Len(gret.names) = Cardinality(M)
                   /\ \A k \in 1..Len(gret.names) :
                          gret.names[k] = payload[Nth(M, k)].name

C33_Witness ==
    /\ gcalls = 3
    /\ gret.op = "public_repos"
    /\ gret.license # NoValue
    /\ NeverRaised(gret.inst)
    /\ Len(gjLog[gret.inst]) = 2
    /\ Len(gret.names) = 2
    /\ Len(gjLog[gret.inst][2].repos) = 3

\* C36: for every integer retries, 0 and negative values included, the
\* retry wrapper finishes only after the operation was invoked at least
\* once: it returns a value the operation returned or raises an error the
\* operation raised, and never returns a value of its own.
C36_FinishesOnlyAfterInvocation ==
    Finished =>
        /\ Invocations >= 1
        /\ rpc = "returned" =>
              /\ result.kind = "value"
              /\ result.attempt \in 1..Invocations
        /\ rpc = "raised" => raised \in 1..Invocations

\* C37: when the function wrapped by cache_query raises on a miss, nothing
\* is stored under that string and query_cache is unchanged; the next call
\* with the same string misses again and executes the function again.
C37_RaiseStoresNothing ==
    /\ [][\A c \in Callers :
            (cpc[c] = "exec" /\ cpc'[c] = "done") =>
                /\ cret'[c].kind = "error"
                /\ queryCache' = queryCache]_vars
    /\ [][(cret[1].kind = "error" /\ cpc[1] = "idle" /\ cpc'[1] = "lookup"
              /\ cq'[1] = cq[1]) =>
                CacheKey(cq'[1]) \notin DOMAIN queryCache']_vars
    /\ [][(cpc[1] = "lookup" /\ CacheKey(cq[1]) \notin DOMAIN queryCache
              /\ cpc'[1] # "lookup") => cpc'[1] = "exec"]_vars

C37_Witness ==
    /\ raisedCnt[cq[1]] >= 1
    /\ stored[cq[1]] = <<>>
    /\ cpc[1] = "store"
    /\ ncalls = 2

\* ---- batch_processing (SpecBp)
\* The users batch_processing has looked at: the batches of the stream but
\* for the users of the last batch not reached yet.
Processed ==
    IF bbatches = <<>> THEN <<>>
    ELSE SubSeq(Flatten(bbatches), 1,
                Len(Flatten(bbatches)) - Len(bbatches[Len(bbatches)]) + bidx)
\* The age of the row is a number, or a string of digits, whose integer
\* part is above 25.
Qualifies(user) ==
    \/ utable[user].t \in {"int", "str"} /\ utable[user].n >= 26
    \/ utable[user].t = "dec" /\ utable[user].n >= 260
\* The age of the row is no number at all.
Unconvertible(user) ==
    \/ utable[user].t = "none"
    \/ utable[user].t = "str" /\ utable[user].n < 0

\* C40: batch_processing(batch_size) yields exactly the users of the batch
\* stream whose age converts to an integer above 25, each once and in
\* stream order; a user whose age cannot be converted is skipped (with a
\* warning) and the scan continues with the users after it.
C40_YieldsUsersOver25 ==
    bpc \in {"batch", "ended"} =>
        /\ bout = SelectSeq(Processed, Qualifies)
        /\ bskipped = SelectSeq(Processed, Unconvertible)
        /\ NoDuplicates(bout)
        /\ bpc = "ended" => Processed = Flatten(bbatches)
        /\ (bpc = "ended" /\ ~bfailed) => Processed = Table(Len(utable))

C40_Witness ==
    /\ bpc = "ended"
    /\ ~bfailed
    /\ bsize = 2
    /\ Len(utable) = 3
    /\ utable[1].t = "int" /\ utable[1].n = 26
    /\ utable[2].t = "none"
    /\ utable[3].t = "int" /\ utable[3].n = 26
    /\ bout = <<1, 3>>
    /\ bskipped = <<2>>

\* ---- the messaging endpoints (SpecChat)
\* C38: after any sequence of requests to the conversation and message
\* endpoints, every stored message has a sender who was a participant of
\* the message's conversation when the message was created (participants
\* of a stored conversation never change); no endpoint lets a
\* non-participant create a message.
C38_SenderIsParticipant ==
    \A k \in 1..Len(messages) :
        messages[k].sender \in conversations[messages[k].conversation]

\* The ids of the request name no user, given as a list.
NamesNoUser(pids) == \E k \in 1..Len(pids.ids) : pids.ids[k] = 0

\* C39: every conversation created through ConversationViewSet.create has
\* at least two participants and includes the requesting user; a rejected
\* request (participant_ids not a list, an id matching no user, fewer than
\* two participants) creates no conversation and changes no stored state.
C39_CreatedConversationsWellFormed ==
    /\ [](\A k \in 1..Len(conversations) :
              Cardinality(conversations[k]) >= 2)
    /\ [](response.op = "create" =>
              /\ response.status \in {201, 400}
              /\ (\/ ~response.pids.list
                  \/ NamesNoUser(response.pids)
                  \/ Cardinality(FoundUsers(response.pids.ids)
                                   \cup {response.user}) < 2)
                     => response.status = 400)
    /\ [][response'.op = "create" =>
              IF response'.status = 201
              THEN /\ Len(conversations') = Len(conversations) + 1
                   /\ response'.user \in conversations'[Len(conversations')]
                   /\ messages' = messages
              ELSE /\ conversations' = conversations
                   /\ messages' = messages]_vars

C39_Witness ==
    /\ response.op = "create"
    /\ response.status = 201
    /\ response.user = 3
    /\ response.pids.ids = <<1, 2>>
    /\ conversations = <<{1, 2, 3}>>

====
